---- MODULE Spec2Model ----
(***************************************************************************)
(* A model of the recursive-descent JSON parser of src/src/json.cpp.       *)
(*                                                                         *)
(* The parser is modelled as a stack machine.  A state holds the input,    *)
(* the cursor (the _DataWrapper fields _pos and _eof, and for the stream   *)
(* cursor the position and state bits of the wrapped std::istream), and    *)
(* the call stack: one frame per active production with its locals.  One   *)
(* action is one prologue or one loop iteration of a production, with      *)
(* every cursor call it makes; a return runs the caller's continuation     *)
(* (the statements after the call) in the same step.                       *)
(*                                                                         *)
(* Characters are C++ char values of a signed-char build (-128..127), so   *)
(* that EOF (-1) compares the way `c == EOF` does in _IstreamWrapper.      *)
(* A Number is kept as an exact decimal (sign, mantissa, power of ten)     *)
(* instead of a rounded double.                                            *)
(***************************************************************************)
EXTENDS Integers, Sequences, FiniteSets, TLC

VARIABLES data, kind, _pos, _eof, stream, stack, status, result, err, hist,
          tables, second

vars == <<data, kind, _pos, _eof, stream, stack, status, result, err, hist,
          tables, second>>

(***************************************************************************)
(* Characters.                                                             *)
(***************************************************************************)
Ord ==
    ("[" :> 91) @@ ("]" :> 93) @@ ("{" :> 123) @@ ("}" :> 125) @@
    (":" :> 58) @@ ("," :> 44) @@ ("\"" :> 34) @@ ("\\" :> 92) @@
    ("/" :> 47) @@ ("-" :> 45) @@ ("+" :> 43) @@ ("." :> 46) @@
    (" " :> 32) @@ ("\t" :> 9) @@ ("\n" :> 10) @@ ("\r" :> 13) @@
    ("0" :> 48) @@ ("1" :> 49) @@ ("2" :> 50) @@ ("3" :> 51) @@ ("4" :> 52) @@
    ("5" :> 53) @@ ("6" :> 54) @@ ("7" :> 55) @@ ("8" :> 56) @@ ("9" :> 57) @@
    ("a" :> 97) @@ ("b" :> 98) @@ ("c" :> 99) @@ ("d" :> 100) @@ ("e" :> 101) @@
    ("f" :> 102) @@ ("l" :> 108) @@ ("n" :> 110) @@ ("r" :> 114) @@
    ("s" :> 115) @@ ("o" :> 111) @@ ("t" :> 116) @@ ("u" :> 117) @@ ("x" :> 120) @@
    ("A" :> 65) @@ ("E" :> 69) @@ ("F" :> 70) @@ ("N" :> 78) @@ ("Z" :> 90) @@
    (";" :> 59) @@ ("#" :> 35)

\* The char values of a text given as a tuple of one-character strings.
Bytes(s) == [i \in 1..Len(s) |-> Ord[s[i]]]

\* int -> char and int -> unsigned char conversions (8-bit, two's complement).
ToChar(n) == LET b == n % 256 IN IF b >= 128 THEN b - 256 ELSE b
ToUChar(n) == n % 256

\* <cctype> in the "C" locale.
isdigit(c) == c >= 48 /\ c <= 57
isxdigit(c) == isdigit(c) \/ (c >= 65 /\ c <= 70) \/ (c >= 97 /\ c <= 102)
tolower(c) == IF c >= 65 /\ c <= 90 THEN c + 32 ELSE c
toupper(c) == IF c >= 97 /\ c <= 122 THEN c - 32 ELSE c

(***************************************************************************)
(* Lexical tables and constants of json.h.                                 *)
(***************************************************************************)
STRUCTURAL_CHARS ==
    (91 :> "begin_array") @@ (123 :> "begin_object") @@
    (93 :> "end_array") @@ (125 :> "end_object") @@
    (58 :> "name_separator") @@ (44 :> "value_separator")
\* The whitespace table without the tab.
WHITESPACE_no_tab == {32, 10, 13}
\* The whitespace table without the carriage return.
WHITESPACE_no_cr == {32, 9, 10}
WHITESPACE == {32, 9, 10, 13}
STRING_QUOTES == 34
BACKSLASH == 92
ESCAPE_CHARS ==
    (34 :> 34) @@ (92 :> 92) @@ (47 :> 47) @@ (98 :> 8) @@
    (102 :> 12) @@ (110 :> 10) @@ (114 :> 13) @@ (116 :> 9)
UNICODE_ESCAPE == 117
MINUS_SIGN == 45
PLUS_SIGN == 43
DECIMAL_POINT == 46
EXPONENT == 101
LITERAL_NAMES ==
    (<<116, 114, 117, 101>> :> "true_") @@
    (<<102, 97, 108, 115, 101>> :> "false_") @@
    (<<110, 117, 108, 108>> :> "null")

\* The four tables as the static initialisers leave them.  They are not
\* const: a parse call reads them out of the state it runs in.
Tables ==
    [STRUCTURAL_CHARS |-> STRUCTURAL_CHARS, WHITESPACE |-> WHITESPACE,
     ESCAPE_CHARS |-> ESCAPE_CHARS, LITERAL_NAMES |-> LITERAL_NAMES]

\* What std::map::operator[] inserts for a missing key: a value-initialised
\* element, which for the two enums is the first enumerator.
ValueInitialised ==
    [STRUCTURAL_CHARS |-> "begin_array", ESCAPE_CHARS |-> 0,
     LITERAL_NAMES |-> "true_"]

\* std::map::count
count(table, k) == IF k \in DOMAIN table THEN 1 ELSE 0

\* <cstdio> EOF, and what e.what() is for the two unpositioned failures.
EOF == -1
INVALID_JSON_DATA == "Invalid JSON data."

(***************************************************************************)
(* Values.                                                                 *)
(***************************************************************************)
NoValue == [type |-> "none"]
Null == [type |-> "Null"]
Boolean(b) == [type |-> "Boolean", v |-> b]
String(s) == [type |-> "String", v |-> s]
Array(a) == [type |-> "Array", v |-> a]
Object(o) == [type |-> "Object", v |-> o]

RECURSIVE StripZeros(_, _)
StripZeros(m, e) ==
    IF m = 0 THEN <<0, 0>>
    ELSE IF m % 10 = 0 THEN StripZeros(m \div 10, e + 1)
    ELSE <<m, e>>

RECURSIVE Pow10(_)
Pow10(n) == IF n = 0 THEN 1 ELSE 10 * Pow10(n - 1)

\* The Number (integer_part + fractional_part) * 10^exponent, negated when
\* negative: mant * 10^exp10 with mant free of trailing zeros.  frac is the
\* fractional digits read as an integer, digits their count.
Number(negative, integer_part, frac, digits, exponent) ==
    LET me == StripZeros(integer_part * Pow10(digits) + frac, exponent - digits)
    IN  [type |-> "Number", neg |-> negative, mant |-> me[1], exp10 |-> me[2]]

(***************************************************************************)
(* The machine a step function works on: the variables as one record.      *)
(***************************************************************************)
Machine ==
    [data |-> data, kind |-> kind, _pos |-> _pos, _eof |-> _eof,
     stream |-> stream, stack |-> stack, status |-> status,
     result |-> result, err |-> err, hist |-> hist, tables |-> tables]

InitMachine(d, k) ==
    [data |-> d, kind |-> k, _pos |-> 0, _eof |-> FALSE,
     stream |-> [pos |-> 0, eofbit |-> FALSE, failbit |-> FALSE],
     stack |-> <<[fn |-> "parse_json", parsed |-> FALSE, result |-> NoValue]>>,
     status |-> "running", result |-> NoValue, err |-> [what |-> <<>>],
     hist |-> [last |-> "none", doubleRetreat |-> FALSE,
               retreatAtZero |-> FALSE, readAtEnd |-> FALSE,
               advanceAtEnd |-> FALSE],
     tables |-> Tables]

\* std::map::operator[] on the table called name: the state after the lookup
\* (a missing key is inserted), and the element the lookup refers to.
index(m, name, k) ==
    IF k \in DOMAIN m.tables[name] THEN m
    ELSE [m EXCEPT !.tables[name] = @ @@ (k :> ValueInitialised[name])]
at(m, name, k) == index(m, name, k).tables[name][k]

Top(m) == m.stack[Len(m.stack)]
SetTop(m, f) == [m EXCEPT !.stack[Len(m.stack)] = f]
Push(m, f) == [m EXCEPT !.stack = Append(m.stack, f)]

\* History of the cursor calls (not program state): the last cursor-moving
\* call, and whether a call of one of the kinds below has happened.
Moved(m, how, atEnd) ==
    [m.hist EXCEPT
        !.last = how,
        !.doubleRetreat = @ \/ (how = "retreat" /\ m.hist.last = "retreat"),
        !.retreatAtZero = @ \/ (how = "retreat" /\ m._pos = 0),
        !.advanceAtEnd = @ \/ (how = "advance" /\ atEnd)]
Read(m, atEnd) == [m.hist EXCEPT !.readAtEnd = @ \/ atEnd]

(***************************************************************************)
(* _DataWrapper::error / errorpos.  The message is kept as its parts:      *)
(* <<what>>, or <<"Error at position ", pos, ": ", what>>.                  *)
(***************************************************************************)
error(what) == [what |-> what]
\* errorpos that counts positions from 1.
errorpos_from_1(m, what, pos) ==
    LET p == IF pos = -1 THEN m._pos ELSE pos
    IN  error(<<"Error at position ", p + 1, ": ", what>>)

errorpos(m, what, pos) ==
    LET p == IF pos = -1 THEN m._pos ELSE pos
    IN  error(<<"Error at position ", p, ": ", what>>)

\* throw, with the error of a nested production caught by the driver and
\* replaced by its own.
Throw_rewrapped(m, e) ==
    [m EXCEPT !.status = "thrown",
              !.err = IF Len(m.stack) > 1 THEN error(<<INVALID_JSON_DATA>>) ELSE e,
              !.stack = <<>>]

\* throw: the frames are unwound and the parse call ends with the error.
Throw(m, e) == [m EXCEPT !.status = "thrown", !.err = e, !.stack = <<>>]

(***************************************************************************)
(* _StrWrapper.  std::string::operator[] gives '\0' at size().             *)
(***************************************************************************)
StrChar(m) == IF m._pos < Len(m.data) THEN m.data[m._pos + 1] ELSE 0

StrPeek(m) ==
    [c |-> StrChar(m),
     m |-> [m EXCEPT !._eof = (m._pos = Len(m.data)),
                     !.hist = Read(m, m._pos >= Len(m.data))]]

StrGet(m) ==
    [c |-> StrChar(m),
     m |-> [m EXCEPT !._eof = (m._pos = Len(m.data)),
                     !._pos = m._pos + 1,
                     !.hist = [Moved(m, "advance", m._pos >= Len(m.data))
                                 EXCEPT !.readAtEnd = @ \/ m._pos >= Len(m.data)]]]

StrInc(m) ==
    [m EXCEPT !._pos = m._pos + 1,
              !._eof = (m._pos + 1 = Len(m.data)),
              !.hist = Moved(m, "advance", m._pos >= Len(m.data))]

StrDec(m) ==
    [m EXCEPT !._pos = m._pos - 1,
              !._eof = FALSE,
              !.hist = Moved(m, "retreat", FALSE)]

(***************************************************************************)
(* std::istream over the bytes of data: peek, get and unget, with the      *)
(* eofbit and failbit they set (an unformatted input function does         *)
(* nothing but set failbit once the stream is not good()).                 *)
(***************************************************************************)
Good(s) == ~s.eofbit /\ ~s.failbit

istream_peek(m) ==
    LET s == m.stream IN
    IF ~Good(s) THEN [c |-> EOF, s |-> [s EXCEPT !.failbit = TRUE]]
    ELSE IF s.pos = Len(m.data) THEN [c |-> EOF, s |-> [s EXCEPT !.eofbit = TRUE]]
    ELSE [c |-> ToUChar(m.data[s.pos + 1]), s |-> s]

istream_get(m) ==
    LET s == m.stream IN
    IF ~Good(s) THEN [c |-> EOF, s |-> [s EXCEPT !.failbit = TRUE]]
    ELSE IF s.pos = Len(m.data)
         THEN [c |-> EOF, s |-> [s EXCEPT !.eofbit = TRUE, !.failbit = TRUE]]
    ELSE [c |-> ToUChar(m.data[s.pos + 1]), s |-> [s EXCEPT !.pos = s.pos + 1]]

istream_unget(m) ==
    LET s == [m.stream EXCEPT !.eofbit = FALSE] IN
    IF s.failbit \/ s.pos = 0 THEN [s EXCEPT !.failbit = TRUE]
    ELSE [s EXCEPT !.pos = s.pos - 1]

\* The stream has no more bytes to give.
Exhausted(m) == ~Good(m.stream) \/ m.stream.pos = Len(m.data)

(***************************************************************************)
(* _IstreamWrapper.                                                        *)
(***************************************************************************)
IstreamPeek(m) ==
    LET r == istream_peek(m)
        c == ToChar(r.c)
    IN  [c |-> c,
         m |-> [m EXCEPT !.stream = r.s, !._eof = (c = EOF),
                         !.hist = Read(m, Exhausted(m))]]

IstreamGet(m) ==
    LET r == istream_get(m)
        c == ToChar(r.c)
    IN  [c |-> c,
         m |-> [m EXCEPT !._pos = m._pos + 1, !.stream = r.s, !._eof = (c = EOF),
                         !.hist = [Moved(m, "advance", Exhausted(m))
                                     EXCEPT !.readAtEnd = @ \/ Exhausted(m)]]]

IstreamInc(m) ==
    LET r == istream_get(m)
        c == ToChar(r.c)
    IN  [m EXCEPT !.stream = r.s, !._pos = m._pos + 1, !._eof = (c = EOF),
                  !.hist = Moved(m, "advance", Exhausted(m))]

IstreamDec(m) ==
    [m EXCEPT !.stream = istream_unget(m), !._pos = m._pos - 1, !._eof = FALSE,
              !.hist = Moved(m, "retreat", FALSE)]

(***************************************************************************)
(* _DataWrapper: the virtual calls.  peek and get give the character and   *)
(* the machine after the call.                                             *)
(***************************************************************************)
peek(m) == IF m.kind = "str" THEN StrPeek(m) ELSE IstreamPeek(m)
get(m) == IF m.kind = "str" THEN StrGet(m) ELSE IstreamGet(m)
inc(m) == IF m.kind = "str" THEN StrInc(m) ELSE IstreamInc(m)
dec(m) == IF m.kind = "str" THEN StrDec(m) ELSE IstreamDec(m)

(***************************************************************************)
(* Calls and returns.  A call pushes the callee's frame; its first step    *)
(* runs its prologue.  A return pops the frame and runs what the caller    *)
(* does with the value: parse_value returns it in turn, the others store   *)
(* it.  Returning from parse_json ends the parse call.                     *)
(***************************************************************************)
\* entry is the cursor offset at the call (history, not a local).
Call(m, fn) == Push(m, [fn |-> fn, pc |-> "entry", entry |-> m._pos])

EmptyMap == [k \in {} |-> NoValue]
\* The members kept by their position of insertion, not under their key.
MapSet_by_position(o, k, v) ==
    [x \in (DOMAIN o) \cup {<<Cardinality(DOMAIN o)>>} |->
        IF x = <<Cardinality(DOMAIN o)>> THEN v ELSE o[x]]
MapSet(o, k, v) == [x \in (DOMAIN o) \cup {k} |-> IF x = k THEN v ELSE o[x]]

\* ParsingPart of parse_object.
Name == 0
Colon == 1
Value == 2
Comma == 3

\* parse_json after `result = parse_value(data)`.
parse_json_resume(m, v) ==
    SetTop(m, [Top(m) EXCEPT !.result = v, !.parsed = TRUE])

\* parse_array stepping the cursor back itself once the value is stored.
parse_array_resume_retreats(m, v) ==
    dec(SetTop(m, [Top(m) EXCEPT !.array = Append(@, v), !.expecting_comma = TRUE]))

\* parse_array after `parse_value(data)`: push_back, then a comma is expected.
parse_array_resume(m, v) ==
    SetTop(m, [Top(m) EXCEPT !.array = Append(@, v), !.expecting_comma = TRUE])

\* parse_object after parse_string (Name: the duplicate test, then on to
\* Colon) and after parse_value (Value: the binding, then on to Comma).
parse_object_resume(m, v) ==
    LET f == Top(m) IN
    IF f.parsing_part = Name
    THEN IF count(f.object, v.v) # 0
         THEN Throw(m, errorpos(m, "Duplicate key disallowed.", f.key_start_pos))
         ELSE SetTop(m, [f EXCEPT !.key = v.v,
                                  !.parsing_part = (f.parsing_part + 1) % 4])
    ELSE SetTop(m, [f EXCEPT !.object = MapSet(f.object, f.key, v),
                             !.parsing_part = (f.parsing_part + 1) % 4])

RECURSIVE Return(_, _)
Return(m, v) ==
    LET m1 == [m EXCEPT !.stack = SubSeq(m.stack, 1, Len(m.stack) - 1)] IN
    IF Len(m1.stack) = 0
    THEN [m1 EXCEPT !.status = "returned", !.result = v]
    ELSE CASE Top(m1).fn = "parse_value" -> Return(m1, v)
           [] Top(m1).fn = "parse_json" -> parse_json_resume(m1, v)
           [] Top(m1).fn = "parse_array" -> parse_array_resume(m1, v)
           [] Top(m1).fn = "parse_object" -> parse_object_resume(m1, v)

(***************************************************************************)
(* parse_value: the dispatcher.                                            *)
(***************************************************************************)
\* The dispatcher that does not take '-' for the start of a number.
parse_value_no_minus(m) ==
    LET r == peek(m)
        c == r.c
        m1 == r.m
        m2 == index(m1, "STRUCTURAL_CHARS", c)
    IN  IF c = STRING_QUOTES THEN Call(m1, "parse_string")
        ELSE IF isdigit(c) THEN Call(m1, "parse_number")
        ELSE IF count(m1.tables.STRUCTURAL_CHARS, c) # 0
        THEN CASE at(m1, "STRUCTURAL_CHARS", c) = "begin_array" -> Call(m2, "parse_array")
               [] at(m1, "STRUCTURAL_CHARS", c) = "begin_object" -> Call(m2, "parse_object")
               [] OTHER -> Throw(m2, errorpos(m2, "Invalid structural character.", -1))
        ELSE Call(m1, "parse_literal_name")

parse_value(m) ==
    LET r == peek(m)
        c == r.c
        m1 == r.m
        m2 == index(m1, "STRUCTURAL_CHARS", c)
    IN  IF c = STRING_QUOTES THEN Call(m1, "parse_string")
        ELSE IF c = MINUS_SIGN \/ isdigit(c) THEN Call(m1, "parse_number")
        ELSE IF count(m1.tables.STRUCTURAL_CHARS, c) # 0
        THEN CASE at(m1, "STRUCTURAL_CHARS", c) = "begin_array" -> Call(m2, "parse_array")
               [] at(m1, "STRUCTURAL_CHARS", c) = "begin_object" -> Call(m2, "parse_object")
               [] OTHER -> Throw(m2, errorpos(m2, "Invalid structural character.", -1))
        ELSE Call(m1, "parse_literal_name")

(***************************************************************************)
(* parse_array.                                                            *)
(***************************************************************************)
\* A closing bracket accepted wherever a value is expected.
EndsOnComma_allowed(f) == FALSE

\* A closing bracket where a value is expected: after a comma unless the
\* array is still empty.
EndsOnComma(f) == Len(f.array) # 0

parse_array(m) ==
    LET f == Top(m) IN
    IF f.pc = "entry"
    THEN SetTop(inc(m), [fn |-> "parse_array", pc |-> "loop", entry |-> f.entry,
                         array |-> <<>>, expecting_comma |-> FALSE])
    ELSE
    LET r == peek(m)
        c == r.c
        m1 == r.m
        \* After the operator[] lookups of this pass, made where count(c) is not 0.
        m2 == IF count(m1.tables.STRUCTURAL_CHARS, c) # 0
              THEN index(m1, "STRUCTURAL_CHARS", c) ELSE m1
    IN  IF m1._eof THEN Throw(m1, errorpos(m1, "Array not closed.", -1))
        ELSE IF c \in m1.tables.WHITESPACE THEN inc(m1)
        ELSE IF f.expecting_comma
        THEN IF count(m1.tables.STRUCTURAL_CHARS, c) = 0
             THEN Throw(m2, errorpos(m2, "Expected comma.", -1))
             ELSE CASE at(m1, "STRUCTURAL_CHARS", c) = "value_separator" ->
                         SetTop(inc(m2), [f EXCEPT !.expecting_comma = FALSE])
                    [] at(m1, "STRUCTURAL_CHARS", c) = "end_array" ->
                         Return(inc(m2), Array(f.array))
                    [] OTHER -> Throw(m2, errorpos(m2, "Expected comma.", -1))
        ELSE IF /\ count(m1.tables.STRUCTURAL_CHARS, c) # 0
                /\ at(m1, "STRUCTURAL_CHARS", c) = "end_array"
        THEN IF EndsOnComma(f)
             THEN Throw(m2, errorpos(m2, "Expected value.", -1))
             ELSE Return(inc(m2), Array(f.array))
        ELSE Call(m2, "parse_value")

(***************************************************************************)
(* parse_object.                                                           *)
(***************************************************************************)
\* parse_object without the object.empty() test of the Name case.
parse_object_closes_after_comma(m) ==
    LET f == Top(m) IN
    IF f.pc = "entry"
    THEN SetTop(inc(m), [fn |-> "parse_object", pc |-> "loop", entry |-> f.entry,
                         object |-> EmptyMap,
                         parsing_part |-> Name, key |-> <<>>, key_start_pos |-> 0])
    ELSE
    LET r == peek(m)
        c == r.c
        m1 == r.m
        next == [f EXCEPT !.parsing_part = (f.parsing_part + 1) % 4]
        \* After the operator[] lookup of this pass, made where count(c) is not 0.
        m2 == IF /\ count(m1.tables.STRUCTURAL_CHARS, c) # 0
                 /\ f.parsing_part # Value
              THEN index(m1, "STRUCTURAL_CHARS", c) ELSE m1
    IN  IF m1._eof THEN Throw(m1, errorpos(m1, "Object not closed.", -1))
        ELSE IF c \in m1.tables.WHITESPACE THEN inc(m1)
        ELSE CASE f.parsing_part = Name ->
                 IF /\ count(m1.tables.STRUCTURAL_CHARS, c) # 0
                    /\ at(m1, "STRUCTURAL_CHARS", c) = "end_object"
                 THEN Return(inc(m2), Object(f.object))
                 ELSE IF c = STRING_QUOTES
                 THEN Call(SetTop(m2, [f EXCEPT !.key_start_pos = m2._pos]),
                           "parse_string")
                 ELSE Throw(m2, errorpos(m2, "Expected string literal as object key.", -1))
               [] f.parsing_part = Colon ->
                 IF count(m1.tables.STRUCTURAL_CHARS, c) = 0
                    \/ at(m1, "STRUCTURAL_CHARS", c) # "name_separator"
                 THEN Throw(m2, errorpos(m2, "Expected colon.", -1))
                 ELSE SetTop(inc(m2), next)
               [] f.parsing_part = Value -> Call(m2, "parse_value")
               [] f.parsing_part = Comma ->
                 IF count(m1.tables.STRUCTURAL_CHARS, c) = 0
                 THEN Throw(m2, errorpos(m2, "Expected comma.", -1))
                 ELSE CASE at(m1, "STRUCTURAL_CHARS", c) = "end_object" ->
                             Return(inc(m2), Object(f.object))
                        [] at(m1, "STRUCTURAL_CHARS", c) = "value_separator" ->
                             SetTop(inc(m2), next)
                        [] OTHER -> Throw(m2, errorpos(m2, "Expected comma.", -1))

parse_object(m) ==
    LET f == Top(m) IN
    IF f.pc = "entry"
    THEN SetTop(inc(m), [fn |-> "parse_object", pc |-> "loop", entry |-> f.entry,
                         object |-> EmptyMap,
                         parsing_part |-> Name, key |-> <<>>, key_start_pos |-> 0])
    ELSE
    LET r == peek(m)
        c == r.c
        m1 == r.m
        next == [f EXCEPT !.parsing_part = (f.parsing_part + 1) % 4]
        \* After the operator[] lookup of this pass, made where count(c) is not 0.
        m2 == IF /\ count(m1.tables.STRUCTURAL_CHARS, c) # 0
                 /\ f.parsing_part # Value
                 /\ f.parsing_part = Name => DOMAIN f.object = {}
              THEN index(m1, "STRUCTURAL_CHARS", c) ELSE m1
    IN  IF m1._eof THEN Throw(m1, errorpos(m1, "Object not closed.", -1))
        ELSE IF c \in m1.tables.WHITESPACE THEN inc(m1)
        ELSE CASE f.parsing_part = Name ->
                 IF /\ DOMAIN f.object = {}
                    /\ count(m1.tables.STRUCTURAL_CHARS, c) # 0
                    /\ at(m1, "STRUCTURAL_CHARS", c) = "end_object"
                 THEN Return(inc(m2), Object(f.object))
                 ELSE IF c = STRING_QUOTES
                 THEN Call(SetTop(m2, [f EXCEPT !.key_start_pos = m2._pos]),
                           "parse_string")
                 ELSE Throw(m2, errorpos(m2, "Expected string literal as object key.", -1))
               [] f.parsing_part = Colon ->
                 IF count(m1.tables.STRUCTURAL_CHARS, c) = 0
                    \/ at(m1, "STRUCTURAL_CHARS", c) # "name_separator"
                 THEN Throw(m2, errorpos(m2, "Expected colon.", -1))
                 ELSE SetTop(inc(m2), next)
               [] f.parsing_part = Value -> Call(m2, "parse_value")
               [] f.parsing_part = Comma ->
                 IF count(m1.tables.STRUCTURAL_CHARS, c) = 0
                 THEN Throw(m2, errorpos(m2, "Expected comma.", -1))
                 ELSE CASE at(m1, "STRUCTURAL_CHARS", c) = "end_object" ->
                             Return(inc(m2), Object(f.object))
                        [] at(m1, "STRUCTURAL_CHARS", c) = "value_separator" ->
                             SetTop(inc(m2), next)
                        [] OTHER -> Throw(m2, errorpos(m2, "Expected comma.", -1))

(***************************************************************************)
(* parse_number.                                                           *)
(***************************************************************************)
\* The test without the check of the exponent's digits.
InvalidNumber_no_exponent(f) ==
    \/ f.integer_part_empty
    \/ (f.decimal_point_seen /\ f.fractional_digits = 0)

\* The test made once lexing has stopped.
InvalidNumber(f) ==
    \/ f.integer_part_empty
    \/ (f.decimal_point_seen /\ f.fractional_digits = 0)
    \/ (f.exponent_seen /\ f.exponent_empty)

\* The leading 0 reported where the cursor stands, as by errorpos(what).
LeadingZeroPos_cursor(m, f) == m._pos

\* Where the offending leading 0 is reported.
LeadingZeroPos(m, f) == f.start_pos

\* end_of_number without the step back of the cursor.
end_of_number_no_retreat(m, f) ==
    IF InvalidNumber(f)
    THEN Throw(m, errorpos(m, "Invalid number literal.", f.start_pos))
    ELSE Return(m, Number(f.negative, f.integer_part, f.fractional_part,
                          f.fractional_digits,
                          IF f.exponent_negative THEN -f.exponent ELSE f.exponent))

\* end_of_number without the negation of the value.
end_of_number_unsigned(m, f) ==
    LET m1 == dec(m) IN
    IF InvalidNumber(f)
    THEN Throw(m1, errorpos(m1, "Invalid number literal.", f.start_pos))
    ELSE Return(m1, Number(FALSE, f.integer_part, f.fractional_part,
                           f.fractional_digits,
                           IF f.exponent_negative THEN -f.exponent ELSE f.exponent))

\* end_of_number: the retreat, the test and the value.
end_of_number(m, f) ==
    LET m1 == dec(m) IN
    IF InvalidNumber(f)
    THEN Throw(m1, errorpos(m1, "Invalid number literal.", f.start_pos))
    ELSE Return(m1, Number(f.negative, f.integer_part, f.fractional_part,
                           f.fractional_digits,
                           IF f.exponent_negative THEN -f.exponent ELSE f.exponent))

\* The prologue: the start offset and the optional minus sign.
number_entry(m) ==
    LET r == peek(m)
        negative == (r.c = MINUS_SIGN)
    IN  SetTop(IF negative THEN inc(r.m) ELSE r.m,
               [fn |-> "parse_number", pc |-> "loop", entry |-> Top(m).entry,
                start_pos |-> m._pos,
                negative |-> negative, integer_part |-> 0, fractional_part |-> 0,
                fractional_digits |-> 0, exponent |-> 0, parsing_part |-> "Integer",
                leading_zero |-> FALSE, integer_part_empty |-> TRUE,
                decimal_point_seen |-> FALSE, exponent_seen |-> FALSE,
                exponent_empty |-> TRUE, exponent_sign_seen |-> FALSE,
                exponent_negative |-> FALSE])

number_integer(m, f, c) ==
    IF c = DECIMAL_POINT
    THEN SetTop(m, [f EXCEPT !.decimal_point_seen = TRUE, !.parsing_part = "Fraction"])
    ELSE IF isdigit(c)
    THEN LET leading_zero == f.leading_zero \/ (c = Ord["0"] /\ f.integer_part_empty) IN
         IF leading_zero /\ ~f.integer_part_empty
         THEN Throw(m, errorpos(m, "Insignificant leading 0s disallowed.",
                                LeadingZeroPos(m, f)))
         ELSE SetTop(m, [f EXCEPT !.leading_zero = leading_zero,
                                  !.integer_part = @ * 10 + (c - Ord["0"]),
                                  !.integer_part_empty = FALSE])
    ELSE IF tolower(c) = EXPONENT
    THEN SetTop(m, [f EXCEPT !.exponent_seen = TRUE, !.parsing_part = "Exponent"])
    ELSE end_of_number(m, f)

number_fraction(m, f, c) ==
    IF isdigit(c)
    THEN SetTop(m, [f EXCEPT !.fractional_digits = @ + 1,
                             !.fractional_part = @ * 10 + (c - Ord["0"])])
    ELSE IF tolower(c) = EXPONENT
    THEN SetTop(m, [f EXCEPT !.exponent_seen = TRUE, !.parsing_part = "Exponent"])
    ELSE end_of_number(m, f)

\* The Exponent case without the exponent_sign_seen guard.
number_exponent_unguarded(m, f, c) ==
    IF f.exponent_empty /\ c = PLUS_SIGN
    THEN SetTop(m, [f EXCEPT !.exponent_sign_seen = TRUE])
    ELSE IF f.exponent_empty /\ c = MINUS_SIGN
    THEN SetTop(m, [f EXCEPT !.exponent_negative = TRUE, !.exponent_sign_seen = TRUE])
    ELSE IF isdigit(c)
    THEN SetTop(m, [f EXCEPT !.exponent = @ * 10 + (c - Ord["0"]),
                             !.exponent_empty = FALSE])
    ELSE end_of_number(m, f)

number_exponent(m, f, c) ==
    IF f.exponent_empty /\ c = PLUS_SIGN /\ ~f.exponent_sign_seen
    THEN SetTop(m, [f EXCEPT !.exponent_sign_seen = TRUE])
    ELSE IF f.exponent_empty /\ c = MINUS_SIGN /\ ~f.exponent_sign_seen
    THEN SetTop(m, [f EXCEPT !.exponent_negative = TRUE, !.exponent_sign_seen = TRUE])
    ELSE IF isdigit(c)
    THEN SetTop(m, [f EXCEPT !.exponent = @ * 10 + (c - Ord["0"]),
                             !.exponent_empty = FALSE])
    ELSE end_of_number(m, f)

parse_number(m) ==
    LET f == Top(m) IN
    IF f.pc = "entry" THEN number_entry(m)
    ELSE
    LET r == get(m)
        c == r.c
        m1 == r.m
    IN  IF m1._eof THEN end_of_number(m1, f)
        ELSE CASE f.parsing_part = "Integer" -> number_integer(m1, f, c)
               [] f.parsing_part = "Fraction" -> number_fraction(m1, f, c)
               [] f.parsing_part = "Exponent" -> number_exponent(m1, f, c)

(***************************************************************************)
(* parse_string.                                                           *)
(***************************************************************************)
RECURSIVE Pow2(_)
Pow2(n) == IF n = 0 THEN 1 ELSE 2 * Pow2(n - 1)

\* byte |= bit << i, on an unsigned char.
OrBit(byte, bit, i) ==
    IF bit = 1 /\ (byte \div Pow2(i)) % 2 = 0 THEN ToUChar(byte + Pow2(i)) ELSE byte

\* The loop of fill_utf8_byte from iteration i on: <<byte, code_point>> after it.
RECURSIVE fill_utf8_byte_from(_, _, _, _)
fill_utf8_byte_from(byte, code_point, cnt, i) ==
    IF i >= cnt THEN <<byte, code_point>>
    ELSE fill_utf8_byte_from(OrBit(byte, code_point % 2, i), code_point \div 2, cnt, i + 1)

\* fill_utf8_byte with the code point passed by value: the caller's is not
\* shifted.
fill_utf8_byte_by_value(byte, code_point, cnt) ==
    <<fill_utf8_byte_from(byte, code_point, cnt, 0)[1], code_point>>

fill_utf8_byte(byte, code_point, cnt) == fill_utf8_byte_from(byte, code_point, cnt, 0)

\* byte |= mask, for a mask of high bits the filled bits do not reach.
RECURSIVE OrMask(_, _, _)
OrMask(byte, mask, i) ==
    IF i = 8 THEN byte
    ELSE OrMask(OrBit(byte, (mask \div Pow2(i)) % 2, i), mask, i + 1)

\* The chars appended for a finished \uXXXX escape.
utf8_bytes(unicode_code_point) ==
    IF unicode_code_point <= 127 THEN <<ToChar(unicode_code_point)>>
    ELSE IF unicode_code_point <= 2047
    THEN LET b2 == fill_utf8_byte(0, unicode_code_point, 6)
             b1 == fill_utf8_byte(0, b2[2], 5)
         IN  <<ToChar(OrMask(b1[1], 192, 0)), ToChar(OrMask(b2[1], 128, 0))>>
    ELSE LET b3 == fill_utf8_byte(0, unicode_code_point, 6)
             b2 == fill_utf8_byte(0, b3[2], 6)
             b1 == fill_utf8_byte(0, b2[2], 4)
         IN  <<ToChar(OrMask(b1[1], 224, 0)), ToChar(OrMask(b2[1], 128, 0)),
               ToChar(OrMask(b3[1], 128, 0))>>

\* The unterminated string reported at the cursor, past the failed read.
UnterminatedPos_cursor(m, f) == m._pos

\* The unterminated string reported at its opening quote.
UnterminatedPos_quote(m, f) == f.entry

\* Where the error of a string cut short by the end of input is reported.
UnterminatedPos(m, f) == m._pos - 1

\* The bad character of an escape reported at the cursor, one past it.
EscapeErrorPos_cursor(m) == m._pos

\* Where a bad character of an escape is reported.
EscapeErrorPos(m) == m._pos - 1

string_normal(m, f, c) ==
    IF c = STRING_QUOTES THEN Return(m, String(f.result))
    ELSE IF c = BACKSLASH THEN SetTop(m, [f EXCEPT !.parsing_part = "escape"])
    ELSE SetTop(m, [f EXCEPT !.result = Append(@, c)])

\* The escape looked up with operator[] without the count() test before it.
string_escape_unguarded(m, f, c) ==
    IF c = UNICODE_ESCAPE
    THEN SetTop(m, [f EXCEPT !.parsing_part = "unicode_escape"])
    ELSE SetTop(index(m, "ESCAPE_CHARS", c),
                [f EXCEPT !.parsing_part = "normal",
                          !.result = Append(@, at(m, "ESCAPE_CHARS", c))])

string_escape(m, f, c) ==
    IF count(m.tables.ESCAPE_CHARS, c) # 0
    THEN SetTop(index(m, "ESCAPE_CHARS", c),
                [f EXCEPT !.parsing_part = "normal",
                          !.result = Append(@, at(m, "ESCAPE_CHARS", c))])
    ELSE IF c = UNICODE_ESCAPE
    THEN SetTop(m, [f EXCEPT !.parsing_part = "unicode_escape"])
    ELSE Throw(m, errorpos(m, "Invalid escape character.", EscapeErrorPos(m)))

string_unicode_escape(m, f, c) ==
    IF ~isxdigit(c)
    THEN Throw(m, errorpos(m, "Invalid hex character in Unicode escape.",
                           EscapeErrorPos(m)))
    ELSE
    LET C == toupper(c)
        decimal_value == IF C >= Ord["A"] THEN C - Ord["A"] + 10 ELSE C - Ord["0"]
        unicode_code_point == f.unicode_code_point * 16 + decimal_value
        unicode_escape_chars == f.unicode_escape_chars + 1
    IN  IF unicode_escape_chars = 4
        THEN SetTop(m, [f EXCEPT !.result = @ \o utf8_bytes(unicode_code_point),
                                 !.parsing_part = "normal",
                                 !.unicode_code_point = 0,
                                 !.unicode_escape_chars = 0])
        ELSE SetTop(m, [f EXCEPT !.unicode_code_point = unicode_code_point,
                                 !.unicode_escape_chars = unicode_escape_chars])

parse_string(m) ==
    LET f == Top(m) IN
    IF f.pc = "entry"
    THEN SetTop(inc(m), [fn |-> "parse_string", pc |-> "loop", entry |-> f.entry,
                         result |-> <<>>,
                         unicode_code_point |-> 0, unicode_escape_chars |-> 0,
                         parsing_part |-> "normal"])
    ELSE
    LET r == get(m)
        c == r.c
        m1 == r.m
    IN  IF m1._eof
        THEN Throw(m1, errorpos(m1, "Unterminated string literal.",
                                UnterminatedPos(m1, f)))
        ELSE CASE f.parsing_part = "normal" -> string_normal(m1, f, c)
               [] f.parsing_part = "escape" -> string_escape(m1, f, c)
               [] f.parsing_part = "unicode_escape" -> string_unicode_escape(m1, f, c)

(***************************************************************************)
(* parse_literal_name.                                                     *)
(***************************************************************************)
\* The lexer that gives up after 4 characters.
parse_literal_name_limit_4(m) ==
    LET f == Top(m) IN
    IF f.pc = "entry"
    THEN SetTop(m, [fn |-> "parse_literal_name", pc |-> "loop", entry |-> f.entry,
                    literal_name |-> <<>>, start_pos |-> m._pos])
    ELSE
    LET r == get(m)
        m1 == r.m
        literal_name == Append(f.literal_name, r.c)
    IN  IF m1._eof \/ Len(literal_name) > 4
        THEN Throw(m1, errorpos(m1, "Invalid literal.", f.start_pos))
        ELSE IF count(m1.tables.LITERAL_NAMES, literal_name) # 0
        THEN LET m2 == index(m1, "LITERAL_NAMES", literal_name)
                 name == at(m1, "LITERAL_NAMES", literal_name)
             IN  CASE name = "true_" -> Return(m2, Boolean(TRUE))
                   [] name = "false_" -> Return(m2, Boolean(FALSE))
                   [] OTHER -> Return(m2, Null)
        ELSE SetTop(m1, [f EXCEPT !.literal_name = literal_name])

\* parse_literal_name without the eof() test after get().
parse_literal_name_no_eof_test(m) ==
    LET f == Top(m) IN
    IF f.pc = "entry"
    THEN SetTop(m, [fn |-> "parse_literal_name", pc |-> "loop", entry |-> f.entry,
                    literal_name |-> <<>>, start_pos |-> m._pos])
    ELSE
    LET r == get(m)
        m1 == r.m
        literal_name == Append(f.literal_name, r.c)
    IN  IF Len(literal_name) > 5
        THEN Throw(m1, errorpos(m1, "Invalid literal.", f.start_pos))
        ELSE IF count(m1.tables.LITERAL_NAMES, literal_name) # 0
        THEN LET m2 == index(m1, "LITERAL_NAMES", literal_name)
                 name == at(m1, "LITERAL_NAMES", literal_name)
             IN  CASE name = "true_" -> Return(m2, Boolean(TRUE))
                   [] name = "false_" -> Return(m2, Boolean(FALSE))
                   [] OTHER -> Return(m2, Null)
        ELSE SetTop(m1, [f EXCEPT !.literal_name = literal_name])

parse_literal_name(m) ==
    LET f == Top(m) IN
    IF f.pc = "entry"
    THEN SetTop(m, [fn |-> "parse_literal_name", pc |-> "loop", entry |-> f.entry,
                    literal_name |-> <<>>, start_pos |-> m._pos])
    ELSE
    LET r == get(m)
        m1 == r.m
        literal_name == Append(f.literal_name, r.c)
    IN  IF m1._eof \/ Len(literal_name) > 5
        THEN Throw(m1, errorpos(m1, "Invalid literal.", f.start_pos))
        ELSE IF count(m1.tables.LITERAL_NAMES, literal_name) # 0
        THEN LET m2 == index(m1, "LITERAL_NAMES", literal_name)
                 name == at(m1, "LITERAL_NAMES", literal_name)
             IN  CASE name = "true_" -> Return(m2, Boolean(TRUE))
                   [] name = "false_" -> Return(m2, Boolean(FALSE))
                   [] OTHER -> Return(m2, Null)
        ELSE SetTop(m1, [f EXCEPT !.literal_name = literal_name])

(***************************************************************************)
(* parse_json: the top-level driver.                                       *)
(***************************************************************************)
\* The driver that stops at the first character after the value.
parse_json_first_value(m) ==
    LET f == Top(m)
        r == peek(m)
        c == r.c
        m1 == r.m
    IN  IF m1._eof
        THEN IF ~f.parsed
             THEN Throw(m1, error(<<INVALID_JSON_DATA>>))
             ELSE Return(m1, f.result)
        ELSE IF c \in m1.tables.WHITESPACE THEN inc(m1)
        ELSE IF f.parsed THEN Return(m1, f.result)
        ELSE Call(m1, "parse_value")

\* The driver that meets whitespace and does not step over it.
parse_json_no_skip(m) ==
    LET f == Top(m)
        r == peek(m)
        c == r.c
        m1 == r.m
    IN  IF m1._eof
        THEN IF ~f.parsed
             THEN Throw(m1, error(<<INVALID_JSON_DATA>>))
             ELSE Return(m1, f.result)
        ELSE IF c \in m1.tables.WHITESPACE THEN m1
        ELSE IF f.parsed THEN Throw(m1, error(<<INVALID_JSON_DATA>>))
        ELSE Call(m1, "parse_value")

parse_json(m) ==
    LET f == Top(m)
        r == peek(m)
        c == r.c
        m1 == r.m
    IN  IF m1._eof
        THEN IF ~f.parsed
             THEN Throw(m1, error(<<INVALID_JSON_DATA>>))
             ELSE Return(m1, f.result)
        ELSE IF c \in m1.tables.WHITESPACE THEN inc(m1)
        ELSE IF f.parsed THEN Throw(m1, error(<<INVALID_JSON_DATA>>))
        ELSE Call(m1, "parse_value")

(***************************************************************************)
(* The state machine.                                                      *)
(***************************************************************************)
\* One step of the production whose frame is on top.
Step(m) ==
    CASE Top(m).fn = "parse_json" -> parse_json(m)
      [] Top(m).fn = "parse_value" -> parse_value(m)
      [] Top(m).fn = "parse_array" -> parse_array(m)
      [] Top(m).fn = "parse_object" -> parse_object(m)
      [] Top(m).fn = "parse_number" -> parse_number(m)
      [] Top(m).fn = "parse_string" -> parse_string(m)
      [] Top(m).fn = "parse_literal_name" -> parse_literal_name(m)

\* A whole parse call: the machine when it has returned or thrown.
RECURSIVE Run(_)
Run(m) == IF m.status # "running" THEN m ELSE Run(Step(m))

\* parse_json(const std::string&) and parse_json(std::istream&) on text d.
parse(d, k) == Run(InitMachine(d, k))

Set(m) ==
    /\ data' = m.data
    /\ kind' = m.kind
    /\ _pos' = m._pos
    /\ _eof' = m._eof
    /\ stream' = m.stream
    /\ stack' = m.stack
    /\ status' = m.status
    /\ result' = m.result
    /\ err' = m.err
    /\ hist' = m.hist
    /\ tables' = m.tables
    /\ second' = second

Running(fn) == status = "running" /\ stack[Len(stack)].fn = fn

ParseJson == Running("parse_json") /\ Set(parse_json(Machine))
ParseValue == Running("parse_value") /\ Set(parse_value(Machine))
ParseArray == Running("parse_array") /\ Set(parse_array(Machine))
ParseObject == Running("parse_object") /\ Set(parse_object(Machine))
ParseNumber == Running("parse_number") /\ Set(parse_number(Machine))
ParseString == Running("parse_string") /\ Set(parse_string(Machine))
ParseLiteralName == Running("parse_literal_name") /\ Set(parse_literal_name(Machine))

Next ==
    \/ ParseJson
    \/ ParseValue
    \/ ParseArray
    \/ ParseObject
    \/ ParseNumber
    \/ ParseString
    \/ ParseLiteralName

\* The two cursors parse_json is overloaded for.
Kinds == {"str", "istream"}

\* All texts of at most n characters over the alphabet A.
Texts(A, n) == UNION {[1..k -> A] : k \in 0..n}

\* No second call in progress.
NoCall == [status |-> "none"]

\* The start of a parse call on text d over a cursor of kind k, while the
\* process's second call is s.
Begin(d, k, s) ==
    /\ data = d
    /\ kind = k
    /\ _pos = 0
    /\ _eof = FALSE
    /\ stream = InitMachine(d, k).stream
    /\ stack = InitMachine(d, k).stack
    /\ status = "running"
    /\ result = NoValue
    /\ err = InitMachine(d, k).err
    /\ hist = InitMachine(d, k).hist
    /\ tables = InitMachine(d, k).tables
    /\ second = s

\* The start of a parse call on text d over a cursor of kind k.
Start(d, k) == Begin(d, k, NoCall)

(***************************************************************************)
(* Spec: every text of at most MaxLen characters over the characters of    *)
(* arrays and of strings with escapes, a digit and a space; and, after an  *)
(* object's first key and after its first member, every text of at most    *)
(* MaxAfterMember characters over the structural characters.               *)
(***************************************************************************)
MaxLen == 4
MaxAfterMember == 3

Alphabet == {Ord[x] : x \in {"[", "]", "\"", ",", "1", "\\", "u", " "}}
MemberAlphabet ==
    {Ord[x] : x \in {"}", ":", ",", "\"", "1", " ", "]", "[", "{"}}
ObjectHeads ==
    {Bytes(<<"{", "\"", "\"">>), Bytes(<<"{", "\"", "\"", ":", "1">>)}
StructureTexts ==
    Texts(Alphabet, MaxLen)
    \cup {h \o t : h \in ObjectHeads, t \in Texts(MemberAlphabet, MaxAfterMember)}

Init == \E d \in StructureTexts, k \in Kinds : Start(d, k)
Spec == Init /\ [][Next]_vars

Done == status # "running"
Returned == status = "returned"
Thrown == status = "thrown"

(***************************************************************************)
(* SpecObject: object documents { k1:v1, ..., kn:vn } of at most           *)
(* MaxMembers members, the keys and the values drawn from small pools.     *)
(***************************************************************************)
MaxMembers == 3

KeyPool == {Bytes(<<"\"", "a", "\"">>), Bytes(<<"\"", "b", "\"">>)}
ValuePool ==
    {Bytes(<<"2", "5">>), Bytes(<<"3", ".", "1", "4">>), Bytes(<<"\"", "x", "\"">>),
     Bytes(<<"[", "]">>), Bytes(<<"n", "u", "l", "l">>), Bytes(<<"{", "}">>)}

\* A member is <<key text, value text>>.
MemberSeqs == UNION {[1..n -> KeyPool \X ValuePool] : n \in 0..MaxMembers}

RECURSIVE Join(_, _)
Join(texts, sep) ==
    IF Len(texts) = 0 THEN <<>>
    ELSE IF Len(texts) = 1 THEN texts[1]
    ELSE texts[1] \o sep \o Join(Tail(texts), sep)

ObjectDoc(ms) ==
    Bytes(<<"{">>)
    \o Join([i \in 1..Len(ms) |-> ms[i][1] \o Bytes(<<":">>) \o ms[i][2]], Bytes(<<",">>))
    \o Bytes(<<"}">>)

ObjectDocs == [ms \in MemberSeqs |-> ObjectDoc(ms)]

InitObject == \E ms \in MemberSeqs, k \in Kinds : Start(ObjectDocs[ms], k)
SpecObject == InitObject /\ [][Next]_vars

\* The member the document's last occurrence of member i's key is.
LastOccurrence(ms, i) ==
    CHOOSE j \in 1..Len(ms) :
        /\ ms[j][1] = ms[i][1]
        /\ \A l \in (j + 1)..Len(ms) : ms[l][1] # ms[i][1]

HasDuplicateKey(ms) ==
    \E i, j \in 1..Len(ms) : i # j /\ ms[i][1] = ms[j][1]

\* The String a key text denotes: the text without its quotes (the keys of
\* KeyPool hold no escape).
KeyString(text) == SubSeq(text, 2, Len(text) - 1)

\* C1: parsing an object document in which a key occurs more than once
\* succeeds, and the Object binds each key to the value of its last occurrence.
C1_DuplicateKeyLastWins ==
    Done => \A ms \in MemberSeqs :
        (ObjectDocs[ms] = data /\ HasDuplicateKey(ms)) =>
            /\ Returned
            /\ result.type = "Object"
            /\ DOMAIN result.v = {KeyString(ms[i][1]) : i \in 1..Len(ms)}
            /\ \A i \in 1..Len(ms) :
                   result.v[KeyString(ms[i][1])]
                       = parse(ms[LastOccurrence(ms, i)][2], kind).result

(***************************************************************************)
(* SpecTrailing: a top-level value, at most MaxSep whitespace characters,  *)
(* then at most MaxTail further characters.                                *)
(***************************************************************************)
MaxSep == 1
MaxTail == 2

TopValues ==
    {Bytes(<<"1">>), Bytes(<<"0">>), Bytes(<<"1", ".", "5">>), Bytes(<<"1", "e", "5">>),
     Bytes(<<"\"", "a", "\"">>), Bytes(<<"[", "]">>), Bytes(<<"[", "1", "]">>),
     Bytes(<<"{", "}">>), Bytes(<<"t", "r", "u", "e">>)}
SepAlphabet == {Ord[" "], Ord["\n"]}
TailAlphabet == {Ord[x] : x \in {"1", "0", ".", "e", "E", "]", "[", "x"}}

TrailingTexts ==
    {v \o s \o t : v \in TopValues, s \in Texts(SepAlphabet, MaxSep),
                   t \in Texts(TailAlphabet, MaxTail)}

InitTrailing == \E d \in TrailingTexts, k \in Kinds : Start(d, k)
SpecTrailing == InitTrailing /\ [][Next]_vars

\* The first k characters of the input are a document the parser accepts.
AcceptedPrefix(k) == parse(SubSeq(data, 1, k), kind).status = "returned"

\* A non-whitespace character follows the first k characters.
TrailingContent(k) == \E j \in (k + 1)..Len(data) : data[j] \notin WHITESPACE

\* The first k characters end in a number token that character k + 1
\* would extend.
ExtendsNumber(k) ==
    /\ parse(SubSeq(data, 1, k), kind).result.type = "Number"
    /\ data[k] \notin WHITESPACE
    /\ \/ isdigit(data[k + 1])
       \/ data[k + 1] = DECIMAL_POINT
       \/ tolower(data[k + 1]) = EXPONENT

UnpositionedFailure == Thrown /\ err.what = <<INVALID_JSON_DATA>>

WhitespaceAlphabet ==
    {Ord[x] : x \in {" ", "\t", "\n", "\r", "[", "{", "\"", "1", "x"}}

InitWhitespace == \E d \in Texts(WhitespaceAlphabet, MaxLen), k \in Kinds : Start(d, k)
SpecWhitespace == InitWhitespace /\ [][Next]_vars

\* Space, tab, LF and CR, as the claim lists them.
Blank(c) == c \in {Ord[" "], Ord["\t"], Ord["\n"], Ord["\r"]}

\* C3: an input that is empty or holds only whitespace (space, tab, LF, CR)
\* fails, over either cursor, with exactly "Invalid JSON data." and no position.
C3_BlankInputFails ==
    (Done /\ \A i \in 1..Len(data) : Blank(data[i])) => UnpositionedFailure

\* C3 witness: all four whitespace characters, over the stream cursor (the
\* empty input over the string cursor is the other end of the claim).
C3_Witness ==
    /\ UnpositionedFailure
    /\ kind = "istream"
    /\ data = Bytes(<<"\t", "\r", "\n", " ">>)

(***************************************************************************)
(* SpecArray: array documents [v1,...,vn] of at most MaxElems elements,    *)
(* each a valid JSON value text of a small pool: numbers, a string, the    *)
(* literals, arrays and objects, one of them with a repeated key.          *)
(***************************************************************************)
MaxElems == 3

ElementPool ==
    {Bytes(<<"1">>), Bytes(<<"-", "2", ".", "5">>), Bytes(<<"\"", "a", "\"">>),
     Bytes(<<"t", "r", "u", "e">>), Bytes(<<"n", "u", "l", "l">>),
     Bytes(<<"[", "]">>), Bytes(<<"[", "1", "]">>), Bytes(<<"{", "}">>),
     Bytes(<<"{", "\"", "a", "\"", ":", "1", "}">>),
     Bytes(<<"{", "\"", "a", "\"", ":", "1", ",", "\"", "a", "\"", ":", "2", "}">>)}

ElementSeqs == UNION {[1..n -> ElementPool] : n \in 0..MaxElems}

ArrayDoc(vs) == Bytes(<<"[">>) \o Join(vs, Bytes(<<",">>)) \o Bytes(<<"]">>)
ArrayDocs == [vs \in ElementSeqs |-> ArrayDoc(vs)]

InitArray == \E vs \in ElementSeqs, k \in Kinds : Start(ArrayDocs[vs], k)
SpecArray == InitArray /\ [][Next]_vars

\* C4: an array document [v1,...,vn], n >= 0, of valid JSON values parses to
\* an Array of exactly n elements, the i-th the value parsed from vi.
C4_ArrayOfValidValues ==
    Done => \A vs \in ElementSeqs :
        ArrayDocs[vs] = data =>
            /\ Returned
            /\ result.type = "Array"
            /\ Len(result.v) = Len(vs)
            /\ \A i \in 1..Len(vs) :
                   /\ parse(vs[i], kind).status = "returned"
                   /\ result.v[i] = parse(vs[i], kind).result

(***************************************************************************)
(* SpecNumber: every text of at most MaxLen characters over the            *)
(* characters of a number and '[', and such texts of at most MaxInContext  *)
(* characters where an object member's value or a later array element is   *)
(* expected.                                                               *)
(***************************************************************************)
MaxInContext == 3

NumberAlphabet == {Ord[x] : x \in {"0", "1", "-", "+", ".", "e", "E", "["}}
NumberContexts ==
    {Bytes(<<"{", "\"", "a", "\"", ":">>), Bytes(<<"[", "t", "r", "u", "e", ",">>)}
NumberTexts ==
    Texts(NumberAlphabet, MaxLen)
    \cup {c \o t : c \in NumberContexts, t \in Texts(NumberAlphabet, MaxInContext)}

InitNumber == \E d \in NumberTexts, k \in Kinds : Start(d, k)
SpecNumber == InitNumber /\ [][Next]_vars

\* The character at 0-based offset i of the input, -2 past its end.
At(i) == IF i < Len(data) THEN data[i + 1] ELSE -2

\* How many decimal digits stand at offset i and after.
RECURSIVE DigitRun(_)
DigitRun(i) == IF isdigit(At(i)) THEN 1 + DigitRun(i + 1) ELSE 0

\* The shape of the number token that starts at offset s, read off the text:
\* -? digits (. digits)? ((e|E) (+|-)? digits)?
NumberShape(s) ==
    LET i0 == IF At(s) = Ord["-"] THEN s + 1 ELSE s
        n1 == DigitRun(i0)
        p == i0 + n1
        hasPoint == At(p) = Ord["."]
        n2 == IF hasPoint THEN DigitRun(p + 1) ELSE 0
        q == IF hasPoint THEN p + 1 + n2 ELSE p
        hasExp == At(q) \in {Ord["e"], Ord["E"]}
        r == IF hasExp /\ At(q + 1) \in {Ord["+"], Ord["-"]} THEN q + 2 ELSE q + 1
        n3 == IF hasExp THEN DigitRun(r) ELSE 0
    IN  [intDigits |-> n1, hasPoint |-> hasPoint, fracDigits |-> n2,
         hasExp |-> hasExp, expDigits |-> n3,
         leadingZero |-> At(i0) = Ord["0"] /\ isdigit(At(i0 + 1))]

\* parse_number has just been called, with the cursor at the token's start.
EnteringNumber ==
    Running("parse_number") /\ stack[Len(stack)].pc = "entry"

PositionedError(pos, what) == <<"Error at position ", pos, ": ", what>>

\* C5: a number token whose integer part is a 0 immediately followed by
\* another digit is rejected with the leading-zero error at the token's start
\* offset (that of the '-' when there is one); no other number token is.
C5_LeadingZeroAtTokenStart ==
    EnteringNumber =>
        LET out == Run(Machine) IN
        (/\ out.status = "thrown"
         /\ out.err.what = PositionedError(_pos, "Insignificant leading 0s disallowed."))
            <=> NumberShape(_pos).leadingZero

\* C5 witness: -01 in an array is rejected at offset 1, the minus sign.
C5_Witness ==
    /\ Thrown
    /\ data = Bytes(<<"[", "-", "0", "1">>)
    /\ err.what = PositionedError(1, "Insignificant leading 0s disallowed.")

\* C6: when lexing of a number token stops, it is rejected with "Invalid
\* number literal." at the token's start offset if and only if the integer
\* part has no digit, or a decimal point has no digit after it, or an
\* exponent marker has no digit after it and its optional sign.
C6_InvalidNumberIffMalformed ==
    (EnteringNumber /\ ~NumberShape(_pos).leadingZero) =>
        LET out == Run(Machine)
            t == NumberShape(_pos)
        IN  (/\ out.status = "thrown"
             /\ out.err.what = PositionedError(_pos, "Invalid number literal."))
                <=> \/ t.intDigits = 0
                    \/ (t.hasPoint /\ t.fracDigits = 0)
                    \/ (t.hasExp /\ t.expDigits = 0)

\* C6 witness: 1e+ in an array is rejected at offset 1.
C6_Witness ==
    /\ Thrown
    /\ data = Bytes(<<"[", "1", "e", "+">>)
    /\ err.what = PositionedError(1, "Invalid number literal.")


(***************************************************************************)
(* Errors of unfinished constructs and of single characters, under Spec.   *)
(***************************************************************************)
ErrorPos == err.what[2]
ErrorWhat == err.what[4]
Positioned == Thrown /\ Len(err.what) = 4

TopFrame == stack[Len(stack)]
InLoop(fn) == Running(fn) /\ TopFrame.pc = "loop"

\* C7: an error for a string, an array or an object that the end of the
\* input leaves unfinished carries the length of the input as its position.
C7_UnfinishedAtInputLength ==
    (Positioned /\ ErrorWhat \in {"Unterminated string literal.",
                                  "Array not closed.", "Object not closed."})
        => ErrorPos = Len(data)

\* An object left open after its first member, on the stream cursor.
C7_Witness ==
    /\ kind = "istream"
    /\ data = Bytes(<<"{", "\"", "\"", ":", "1", ",", " ">>)
    /\ Thrown
    /\ err.what = PositionedError(7, "Object not closed.")

\* The step of parse_string that meets the end of the input.
StringRunsOut ==
    InLoop("parse_string") /\ Thrown' /\ ErrorWhat' = "Unterminated string literal."

\* The offset of the backslash of the escape the lexer is inside.
EscapeOffset ==
    IF TopFrame.parsing_part = "escape" THEN _pos - 1
    ELSE _pos - 2 - TopFrame.unicode_escape_chars

\* C8 as stated: the error of an unterminated string is anchored at the
\* opening quote if the lexer was in its Normal state, and at the escape if
\* it was in the Escape or UnicodeEscape state.
C8_UnterminatedAtQuoteOrEscape ==
    [][StringRunsOut =>
         ErrorPos' = IF TopFrame.parsing_part = "normal" THEN TopFrame.entry
                     ELSE EscapeOffset]_vars

\* C8: the error of an unterminated string is anchored at the offset where
\* the input ran out, its length, in each of the three lexer states.
C8_UnterminatedAtEndOfInput ==
    [][StringRunsOut =>
         /\ TopFrame.parsing_part \in {"normal", "escape", "unicode_escape"}
         /\ ErrorPos' = Len(data)
         /\ ErrorPos' > TopFrame.entry]_vars

\* A string that runs out within a Unicode escape.
C8_Witness ==
    /\ data = Bytes(<<"\"", "\\", "u", "1">>)
    /\ Thrown
    /\ err.what = PositionedError(4, "Unterminated string literal.")

\* The first offset at or after i that holds no whitespace.
RECURSIVE SkipBlank(_)
SkipBlank(i) == IF Blank(At(i)) THEN SkipBlank(i + 1) ELSE i

\* The last offset before i that holds no whitespace, or -1.
RECURSIVE LastBefore(_)
LastBefore(i) ==
    IF i = 0 THEN -1
    ELSE IF Blank(At(i - 1)) THEN LastBefore(i - 1) ELSE i - 1

\* The array or the object on top has consumed a comma and now expects a
\* value or a member, and the next character that is not whitespace is its
\* closing bracket.
CloserAfterComma ==
    /\ \/ InLoop("parse_array") /\ ~TopFrame.expecting_comma
          /\ At(SkipBlank(_pos)) = Ord["]"]
       \/ InLoop("parse_object") /\ TopFrame.parsing_part = Name
          /\ At(SkipBlank(_pos)) = Ord["}"]
    /\ LastBefore(_pos) >= 0
    /\ At(LastBefore(_pos)) = Ord[","]

\* C9: a comma followed, after optional whitespace, by the closing bracket
\* of the array or object it is in makes the parse fail with an error at
\* the offset of that bracket.
C9_TrailingCommaAtCloser ==
    CloserAfterComma =>
        LET out == Run(Machine)
        IN  /\ out.status = "thrown"
            /\ Len(out.err.what) = 4
            /\ out.err.what[2] = SkipBlank(_pos)

C9_Witness ==
    /\ data = Bytes(<<"{", "\"", "\"", ":", "1", ",", " ", "}">>)
    /\ Thrown
    /\ err.what = PositionedError(7, "Expected string literal as object key.")

\* The characters that may follow a backslash.
EscapeLetters ==
    {Ord[x] : x \in {"\"", "\\", "/", "b", "f", "n", "r", "t", "u"}}

\* The cursor stands on a character that the construct on top cannot take:
\* the message of the error it must raise, or "" if there is none.
Offending ==
    LET c == At(_pos)
        f == TopFrame
    IN  IF _pos >= Len(data) THEN ""
        ELSE IF InLoop("parse_string") /\ f.parsing_part = "escape"
                /\ c \notin EscapeLetters
        THEN "Invalid escape character."
        ELSE IF InLoop("parse_string") /\ f.parsing_part = "unicode_escape"
                /\ ~(\/ c \in Ord["0"]..Ord["9"]
                     \/ c \in Ord["a"]..Ord["f"]
                     \/ c \in Ord["A"]..Ord["F"])
        THEN "Invalid hex character in Unicode escape."
        ELSE IF InLoop("parse_object") /\ f.parsing_part = Colon
                /\ ~Blank(c) /\ c # Ord[":"]
        THEN "Expected colon."
        ELSE IF InLoop("parse_object") /\ f.parsing_part = Comma
                /\ ~Blank(c) /\ c \notin {Ord[","], Ord["}"]}
        THEN "Expected comma."
        ELSE IF InLoop("parse_array") /\ f.expecting_comma
                /\ ~Blank(c) /\ c \notin {Ord[","], Ord["]"]}
        THEN "Expected comma."
        ELSE ""

\* C10: a bad character after a backslash, a character that is no hex digit
\* in a Unicode escape, a character other than the colon after a key, and a
\* character other than the comma or the closer after an element or member
\* each raise an error whose position is the offset of that character.
C10_ErrorAtOffendingCharacter ==
    [][Offending # "" =>
         /\ Thrown'
         /\ err'.what = PositionedError(_pos, Offending)]_vars

\* A colon where the comma after the first member is expected.
C10_Witness ==
    /\ data = Bytes(<<"{", "\"", "\"", ":", "1", ":">>)
    /\ Thrown
    /\ err.what = PositionedError(5, "Expected comma.")


(***************************************************************************)
(* SpecBytes: every text of at most MaxBytes bytes over the bytes 0x00,    *)
(* 0x80 and 0xFF (as char: 0, -128 and -1) and the first characters of     *)
(* the values.                                                             *)
(***************************************************************************)
MaxBytes == 3

ByteAlphabet ==
    {0, ToChar(128), ToChar(255)}
    \cup {Ord[x] : x \in {"\"", "1", "[", "]", "{", " "}}

InitBytes == \E d \in Texts(ByteAlphabet, MaxBytes), k \in Kinds : Start(d, k)
SpecBytes == InitBytes /\ [][Next]_vars

\* The other cursor over the same bytes.
OtherKind == IF kind = "str" THEN "istream" ELSE "str"

\* C11: over the same bytes, whatever their values, the parse over the
\* string cursor and the parse over the stream cursor end alike: both
\* return equal values, or both throw the same message.
C11_CursorsInterchangeable ==
    Done =>
        LET other == parse(data, OtherKind)
        IN  /\ other.status = status
            /\ other.result = result
            /\ other.err = err


(***************************************************************************)
(* SpecUnicode: a string literal that holds one \uXXXX escape over the hex *)
(* digits of HexChars, then at most MaxMoreEscapes escapes of a small      *)
(* pool; or the first escape alone in a string that is the value of the    *)
(* one member of an object, itself the last element of an array.           *)
(***************************************************************************)
MaxMoreEscapes == 1

HexChars == {Ord[x] : x \in {"0", "7", "8", "d", "f", "F"}}
UnicodeEscapeOf(h) == Bytes(<<"\\", "u">>) \o h
FirstEscapes == {UnicodeEscapeOf(h) : h \in [1..4 -> HexChars]}
MoreEscapes ==
    {Bytes(<<"\\", "u", "0", "0", "e", "9">>), Bytes(<<"\\", "u", "1", "2", "3", "4">>)}
EscapeRuns ==
    UNION {[1..n -> MoreEscapes] : n \in 0..MaxMoreEscapes}
UnicodeStrings ==
    {Bytes(<<"\"">>) \o e \o Join(r, <<>>) \o Bytes(<<"\"">>) :
        e \in FirstEscapes, r \in EscapeRuns}
Nesting == Bytes(<<"[", "n", "u", "l", "l", ",", "1", ",", "{", "\"", "\"", ":">>)
UnicodeTexts ==
    UnicodeStrings
    \cup {Nesting \o Bytes(<<"\"">>) \o e \o Bytes(<<"\"", "}", "]">>) :
              e \in FirstEscapes}

InitUnicode == \E d \in UnicodeTexts, k \in Kinds : Start(d, k)
SpecUnicode == InitUnicode /\ [][Next]_vars

\* The value of a hex digit, either case.
HexValue(c) ==
    IF c >= Ord["a"] THEN c - Ord["a"] + 10
    ELSE IF c >= Ord["A"] THEN c - Ord["A"] + 10
    ELSE c - Ord["0"]

\* The code point of the escape whose backslash is at offset i.
CodePointAt(i) ==
    HexValue(At(i + 2)) * 4096 + HexValue(At(i + 3)) * 256
        + HexValue(At(i + 4)) * 16 + HexValue(At(i + 5))

\* The UTF-8 bytes of code point cp, by the three ranges, as chars.
Utf8(cp) ==
    IF cp <= 127 THEN <<ToChar(cp)>>
    ELSE IF cp <= 2047
    THEN <<ToChar(192 + (cp \div 64)), ToChar(128 + (cp % 64))>>
    ELSE <<ToChar(224 + (cp \div 4096)), ToChar(128 + ((cp \div 64) % 64)),
           ToChar(128 + (cp % 64))>>

\* The bytes of the run of escapes that starts at offset i.
RECURSIVE DecodedFrom(_)
DecodedFrom(i) ==
    IF At(i) # Ord["\\"] THEN <<>>
    ELSE Utf8(CodePointAt(i)) \o DecodedFrom(i + 6)

\* The input is the nested document.
Nested == At(0) = Ord["["]

\* C12: a string of \uXXXX escapes is returned as the UTF-8 bytes of each
\* escape's code point, one after the other: one byte up to 0x7F, two up to
\* 0x7FF, three above, each escape decoded on its own.
C12_UnicodeEscapeBytes ==
    Done =>
        /\ Returned
        /\ ~Nested => result = String(DecodedFrom(1))
        /\ Nested =>
              result = Array(<<Null, Number(FALSE, 1, 0, 0, 0),
                               Object(MapSet(EmptyMap, <<>>,
                                             String(DecodedFrom(Len(Nesting) + 1))))>>)

\* U+07FF, the last code point of two bytes, then U+1234.
C12_Witness ==
    /\ data = Bytes(<<"\"", "\\", "u", "0", "7", "f", "F",
                      "\\", "u", "1", "2", "3", "4", "\"">>)
    /\ kind = "istream"
    /\ Returned
    /\ result = String(<<-33, -65, -31, -120, -76>>)


\* The byte of s at index i, unsigned; -1 past the end.
UByte(s, i) == IF i <= Len(s) THEN ToUChar(s[i]) ELSE -1

Continuation(b) == b >= 128 /\ b <= 191

\* s from index i on is well-formed UTF-8 (Unicode, table 3-7): no overlong
\* form, no surrogate, no truncated sequence, nothing above U+10FFFF.
RECURSIVE ValidUtf8From(_, _)
ValidUtf8From(s, i) ==
    LET b0 == UByte(s, i)
        b1 == UByte(s, i + 1)
        b2 == UByte(s, i + 2)
        b3 == UByte(s, i + 3)
    IN  IF i > Len(s) THEN TRUE
        ELSE IF b0 <= 127 THEN ValidUtf8From(s, i + 1)
        ELSE IF b0 >= 194 /\ b0 <= 223
        THEN Continuation(b1) /\ ValidUtf8From(s, i + 2)
        ELSE IF b0 >= 224 /\ b0 <= 239
        THEN /\ Continuation(b1) /\ Continuation(b2)
             /\ b0 = 224 => b1 >= 160
             /\ b0 = 237 => b1 <= 159
             /\ ValidUtf8From(s, i + 3)
        ELSE IF b0 >= 240 /\ b0 <= 244
        THEN /\ Continuation(b1) /\ Continuation(b2) /\ Continuation(b3)
             /\ b0 = 240 => b1 >= 144
             /\ b0 = 244 => b1 <= 143
             /\ ValidUtf8From(s, i + 4)
        ELSE FALSE

ValidUtf8(s) == ValidUtf8From(s, 1)

\* Every String and every object key of the tree v is valid UTF-8.
RECURSIVE ValidStrings(_)
ValidStrings(v) ==
    CASE v.type = "String" -> ValidUtf8(v.v)
      [] v.type = "Array" -> \A i \in 1..Len(v.v) : ValidStrings(v.v[i])
      [] v.type = "Object" ->
            \A k \in DOMAIN v.v : ValidUtf8(k) /\ ValidStrings(v.v[k])
      [] OTHER -> TRUE

\* C13: when the bytes of an accepted input are valid UTF-8, so are every
\* String and every object key of the returned value.
C13_StringsAreValidUtf8 ==
    (Returned /\ ValidUtf8(data)) => ValidStrings(result)


(***************************************************************************)
(* The exponent's sign, under SpecNumber.                                  *)
(***************************************************************************)
\* parse_number is in its Exponent part with a sign under the cursor.
SignInExponent ==
    /\ InLoop("parse_number")
    /\ TopFrame.parsing_part = "Exponent"
    /\ At(_pos) \in {Ord["+"], Ord["-"]}

\* The step keeps lexing the number and has taken the character.
SignConsumed ==
    /\ status' = "running"
    /\ Len(stack') = Len(stack)
    /\ stack'[Len(stack')].fn = "parse_number"
    /\ stack'[Len(stack')].exponent_sign_seen
    /\ _pos' = _pos + 1

\* The step ends the number with the cursor left on the character: the
\* number is returned, or rejected at its start for want of a digit.
NumberEndsBefore ==
    /\ _pos' = _pos
    /\ \/ status' # "thrown" /\ Len(stack') < Len(stack)
       \/ /\ status' = "thrown"
          /\ err'.what = PositionedError(TopFrame.start_pos, "Invalid number literal.")

\* C14: in the exponent of a number a sign is taken only right after the
\* e or E; a second sign, or a sign after an exponent digit, is left
\* unconsumed and ends the number, which is rejected when the exponent has
\* no digit yet (as in 1e+- and 1e--).
C14_SingleLeadingExponentSign ==
    [][SignInExponent =>
         IF At(_pos - 1) \in {Ord["e"], Ord["E"]} THEN SignConsumed
         ELSE LET t == NumberShape(TopFrame.start_pos) IN
              /\ NumberEndsBefore
              /\ ~isdigit(At(_pos - 1)) => status' = "thrown"
              /\ (/\ isdigit(At(_pos - 1))
                  /\ t.intDigits > 0
                  /\ t.hasPoint => t.fracDigits > 0) => status' # "thrown"]_vars

\* 1e+- is rejected at the start of the token.
C14_Witness ==
    /\ data = Bytes(<<"1", "e", "+", "-">>)
    /\ Thrown
    /\ err.what = PositionedError(0, "Invalid number literal.")


(***************************************************************************)
(* SpecLiteral: a keyword or a near miss of one, at top level, in an       *)
(* array or as an object member's value, followed by at most               *)
(* MaxAfterLiteral further characters.                                     *)
(***************************************************************************)
MaxAfterLiteral == 2

LiteralWords ==
    {Bytes(<<"t", "r", "u", "e">>), Bytes(<<"f", "a", "l", "s", "e">>),
     Bytes(<<"n", "u", "l", "l">>), Bytes(<<"t", "r", "u">>),
     Bytes(<<"f", "a", "l", "s">>), Bytes(<<"n", "u", "l">>),
     Bytes(<<"t", "r", "o", "e">>), Bytes(<<"N", "u", "l", "l">>),
     Bytes(<<"n", "u", "l", "x">>), Bytes(<<"x", "t", "r", "u", "e">>),
     Bytes(<<"f", "a", "l", "s", "x">>)}
LiteralContexts ==
    {<<>>, Bytes(<<"[">>), Bytes(<<"[", "1", ",">>),
     Bytes(<<"{", "\"", "a", "\"", ":">>)}
AfterLiteralAlphabet == {Ord[x] : x \in {"e", "]", "}", ",", " "}}
LiteralTexts ==
    {c \o w \o t : c \in LiteralContexts, w \in LiteralWords,
                   t \in Texts(AfterLiteralAlphabet, MaxAfterLiteral)}

InitLiteral == \E d \in LiteralTexts, k \in Kinds : Start(d, k)
SpecLiteral == InitLiteral /\ [][Next]_vars

\* The input from offset s on starts with the characters of w.
SpelledAt(s, w) == \A i \in 1..Len(w) : At(s + i - 1) = Ord[w[i]]

\* The keyword spelled at offset s, or <<>>.
KeywordAt(s) ==
    IF SpelledAt(s, <<"t", "r", "u", "e">>) THEN <<"t", "r", "u", "e">>
    ELSE IF SpelledAt(s, <<"f", "a", "l", "s", "e">>) THEN <<"f", "a", "l", "s", "e">>
    ELSE IF SpelledAt(s, <<"n", "u", "l", "l">>) THEN <<"n", "u", "l", "l">>
    ELSE <<>>

KeywordValue(w) ==
    IF w = <<"t", "r", "u", "e">> THEN [type |-> "Boolean", v |-> TRUE]
    ELSE IF w = <<"f", "a", "l", "s", "e">> THEN [type |-> "Boolean", v |-> FALSE]
    ELSE [type |-> "Null"]

\* The step returns v from the lexer, through the dispatcher, to the
\* function that asked for a value, which stores it.
Delivered(v) ==
    /\ status' = "running"
    /\ Len(stack') = Len(stack) - 2
    /\ LET before == stack[Len(stack) - 2]
           after == stack'[Len(stack')]
       IN  CASE after.fn = "parse_json" -> after.parsed /\ after.result = v
             [] after.fn = "parse_array" -> after.array = Append(before.array, v)
             [] after.fn = "parse_object" ->
                    /\ before.key \in DOMAIN after.object
                    /\ after.object[before.key] = v

\* C15: the literal lexer entered at offset s returns true, false or null
\* when the input spells that keyword at s, with the cursor right after the
\* keyword; otherwise it never returns, reads at most 6 characters and
\* fails with "Invalid literal." at s.
C15_LiteralLexer ==
    [][InLoop("parse_literal_name") =>
         LET s == TopFrame.entry
             w == KeywordAt(s)
         IN  IF Len(stack') = Len(stack)
             THEN /\ status' = "running"
                  /\ _pos' = _pos + 1
                  /\ _pos' < s + (IF w = <<>> THEN 6 ELSE Len(w))
             ELSE IF w # <<>>
             THEN /\ _pos' = s + Len(w)
                  /\ Delivered(KeywordValue(w))
             ELSE /\ status' = "thrown"
                  /\ err'.what = PositionedError(s, "Invalid literal.")]_vars

\* [troeee fails at offset 1.
C15_Witness ==
    /\ data = Bytes(<<"[", "t", "r", "o", "e", "e", "e">>)
    /\ Thrown
    /\ err.what = PositionedError(1, "Invalid literal.")


(***************************************************************************)
(* The form of every failure, under Spec.                                  *)
(***************************************************************************)
\* The step throws from the top-level driver: no value was found in an
\* input of whitespace only, or a character that is no whitespace follows
\* the value.
TopLevelFailure ==
    /\ Running("parse_json")
    /\ IF TopFrame.parsed
       THEN _pos < Len(data) /\ ~Blank(At(_pos))
       ELSE \A i \in 1..Len(data) : Blank(data[i])

\* C16: a failure carries either exactly "Invalid JSON data.", and then it
\* is one of the two top-level cases, or "Error at position k: ..." with
\* 0 <= k <= the length of the input.
C16_FailureMessageForm ==
    [][status' = "thrown" =>
         \/ err'.what = <<"Invalid JSON data.">> /\ TopLevelFailure
         \/ /\ Len(err'.what) = 4
            /\ err'.what[1] = "Error at position "
            /\ err'.what[2] \in 0..Len(data)
            /\ err'.what[3] = ": "
            /\ ~Running("parse_json")]_vars

\* A second number where the comma is expected.
C16_Witness ==
    /\ data = Bytes(<<"[", "1", " ", "1">>)
    /\ Thrown
    /\ err.what = PositionedError(3, "Expected comma.")


(***************************************************************************)
(* SpecOrder: object documents of at most MaxDistinct members with         *)
(* distinct keys, in every order.                                          *)
(***************************************************************************)
MaxDistinct == 2

OrderKeys ==
    {Bytes(<<"\"", "1", "\"">>), Bytes(<<"\"", "a", "\"">>), Bytes(<<"\"", "b", "\"">>)}
OrderValues ==
    {Bytes(<<"2", "5">>), Bytes(<<"\"", "x", "\"">>), Bytes(<<"n", "u", "l", "l">>),
     Bytes(<<"[", "]">>)}
DistinctSeqs ==
    {ms \in UNION {[1..n -> OrderKeys \X OrderValues] : n \in 0..MaxDistinct} :
        ~HasDuplicateKey(ms)}

InitOrder == \E ms \in DistinctSeqs, k \in Kinds : Start(ObjectDoc(ms), k)
SpecOrder == InitOrder /\ [][Next]_vars

\* The members of ms in the order p.
Reordered(ms, p) == [i \in 1..Len(ms) |-> ms[p[i]]]

\* C17: an object document parses to the same value as each document that
\* holds the same members, with distinct keys, in another order.
C17_MemberOrderIrrelevant ==
    Done => \A ms \in DistinctSeqs :
        data = ObjectDoc(ms) =>
            /\ Returned
            /\ DOMAIN result.v = {KeyString(ms[i][1]) : i \in 1..Len(ms)}
            /\ \A p \in Permutations(1..Len(ms)) :
                   LET other == parse(ObjectDoc(Reordered(ms, p)), kind)
                   IN  other.status = "returned" /\ other.result = result

\* {"b":"x","1":25} against {"1":25,"b":"x"}.
C17_Witness ==
    /\ data = Bytes(<<"{", "\"", "b", "\"", ":", "\"", "x", "\"", ",",
                      "\"", "1", "\"", ":", "2", "5", "}">>)
    /\ Returned
    /\ result = parse(Bytes(<<"{", "\"", "1", "\"", ":", "2", "5", ",",
                              "\"", "b", "\"", ":", "\"", "x", "\"", "}">>), "str").result


(***************************************************************************)
(* SpecPadding: documents given as their tokens, with at most MaxPadding   *)
(* whitespace characters put before, between and after the tokens.         *)
(***************************************************************************)
MaxPadding == 2

TokenDocs ==
    {<<Bytes(<<"1">>)>>, <<Bytes(<<"\"", "a", "\"">>)>>,
     <<Bytes(<<"t", "r", "u", "e">>)>>,
     <<Bytes(<<"[">>), Bytes(<<"1">>), Bytes(<<",">>), Bytes(<<"{">>),
       Bytes(<<"\"", "a", "\"">>), Bytes(<<":">>), Bytes(<<"t", "r", "u", "e">>),
       Bytes(<<"}">>), Bytes(<<"]">>)>>}
PaddingAlphabet == {Ord[" "], Ord["\t"], Ord["\n"], Ord["\r"]}

\* The texts made of the tokens toks with at most n whitespace characters
\* in all, in any of the gaps.
RECURSIVE Padded(_, _)
Padded(toks, n) ==
    IF toks = <<>> THEN Texts(PaddingAlphabet, n)
    ELSE UNION {{w \o Head(toks) \o rest : rest \in Padded(Tail(toks), n - Len(w))} :
                   w \in Texts(PaddingAlphabet, n)}

PaddedTexts == UNION {Padded(toks, MaxPadding) : toks \in TokenDocs}

InitPadding == \E d \in PaddedTexts, k \in Kinds : Start(d, k)
SpecPadding == InitPadding /\ [][Next]_vars

\* The text s without its whitespace characters.
RECURSIVE Unpadded(_)
Unpadded(s) ==
    IF s = <<>> THEN <<>>
    ELSE IF Blank(Head(s)) THEN Unpadded(Tail(s))
    ELSE <<Head(s)>> \o Unpadded(Tail(s))

\* C18: a document with whitespace put before the value, after it or
\* between two tokens parses, as the document without it does, to an equal
\* value.
C18_WhitespaceInsignificant ==
    Done =>
        LET plain == parse(Unpadded(data), kind)
        IN  /\ plain.status = "returned"
            /\ Returned
            /\ result = plain.result

\* A space before a comma and a tab after a colon.
C18_Witness ==
    /\ data = Bytes(<<"[", "1", " ", ",", "{", "\"", "a", "\"", ":", "\t",
                      "t", "r", "u", "e", "}", "]">>)
    /\ Returned
    /\ result = Array(<<Number(FALSE, 1, 0, 0, 0),
                        Object(MapSet(EmptyMap, Bytes(<<"a">>), Boolean(TRUE)))>>)


(***************************************************************************)
(* SpecInteger: number tokens without a fraction, at top level and as an   *)
(* element of an array that is a member's value.                           *)
(***************************************************************************)
MaxIntDigits == 2

IntegerTexts ==
    LET digits == {Ord[x] : x \in {"0", "3", "4", "5", "6"}}
        ints == (UNION {[1..n -> digits] : n \in 1..MaxIntDigits})
                    \cup {Bytes(<<"4", "5", "6">>)}
        marks == {Bytes(<<"e">>), Bytes(<<"E">>)}
        signs == {<<>>, Bytes(<<"+">>), Bytes(<<"-">>)}
        exps == {<<>>} \cup {k \o g \o x : k \in marks, g \in signs,
                                x \in {Bytes(<<"0">>), Bytes(<<"5">>), Bytes(<<"1", "2">>)}}
        heads == {<<>>, Bytes(<<"{", "\"", "a", "\"", ":", "[", "t", "r", "u", "e", ",">>)}
    IN  {h \o g \o i \o e : h \in heads, g \in {<<>>, Bytes(<<"-">>)},
                            i \in ints, e \in exps}

InitInteger == \E d \in IntegerTexts, k \in Kinds : Start(d, k)
SpecInteger == InitInteger /\ [][Next]_vars

\* The decimal integer written by the n digits at offset i.
RECURSIVE DigitsValue(_, _)
DigitsValue(i, n) ==
    IF n = 0 THEN 0 ELSE DigitsValue(i, n - 1) * 10 + (At(i + n - 1) - Ord["0"])

\* The token at offset s read as -? digits ((e|E) +? digits)?: whether it
\* is one, its sign, its integer digits and its exponent.
IntegerToken(s) ==
    LET t == NumberShape(s)
        i0 == IF At(s) = Ord["-"] THEN s + 1 ELSE s
        q == i0 + t.intDigits
        r == IF At(q + 1) = Ord["+"] THEN q + 2 ELSE q + 1
    IN  [ok |-> /\ t.intDigits > 0
                /\ ~t.leadingZero
                /\ ~t.hasPoint
                /\ t.hasExp => (At(q + 1) # Ord["-"] /\ t.expDigits > 0),
         neg |-> At(s) = Ord["-"],
         digits |-> DigitsValue(i0, t.intDigits),
         exponent |-> IF t.hasExp THEN DigitsValue(r, t.expDigits) ELSE 0]

\* The Number v is, as a number, n * 10^e, negated when neg.
NumericallyEqual(v, neg, n, e) ==
    /\ v.type = "Number"
    /\ IF n = 0 THEN v.mant = 0
       ELSE /\ v.neg = neg
            /\ v.exp10 >= e
            /\ v.mant * Pow10(v.exp10 - e) = n

\* The value the caller has stored once the step has returned to it.
Stored ==
    LET before == stack[Len(stack) - 2]
        after == stack'[Len(stack')]
    IN  CASE after.fn = "parse_json" -> after.result
          [] after.fn = "parse_array" -> after.array[Len(after.array)]
          [] after.fn = "parse_object" -> after.object[before.key]

ReturnedTo(i) == Len(stack') < Len(stack) /\ i = Len(stack')

\* Frame i is the running function and the step consumes the character ch.
Consumes(i, ch) == i = Len(stack) /\ At(_pos) = Ord[ch] /\ _pos' = _pos + 1

\* Every parse_object in progress starts in Name and moves only to the next
\* state of the cycle, on the token of its state.
ObjectStateOrder ==
    \A i \in 1..Len(stack) :
        (stack[i].fn = "parse_object" /\ i <= Len(stack')) =>
            IF stack[i].pc = "entry" THEN stack'[i].parsing_part = Name
            ELSE LET p == stack[i].parsing_part
                     q == stack'[i].parsing_part
                 IN  \/ q = p
                     \/ /\ p = Name /\ q = Colon /\ ReturnedTo(i)
                        /\ At(stack[i].key_start_pos) = Ord["\""]
                     \/ p = Colon /\ q = Value /\ Consumes(i, ":")
                     \/ p = Value /\ q = Comma /\ ReturnedTo(i)
                     \/ p = Comma /\ q = Name /\ Consumes(i, ",")

\* What a step of parse_object's loop does with the character under the
\* cursor.
ObjectLoopStep ==
    InLoop("parse_object") =>
        LET f == TopFrame
            c == At(_pos)
            closes == \/ f.parsing_part = Name /\ f.object = EmptyMap
                      \/ f.parsing_part = Comma
        IN  /\ (Len(stack') < Len(stack) /\ status' # "thrown") =>
                   /\ c = Ord["}"]
                   /\ closes
                   /\ _pos' = _pos + 1
                   /\ IF Len(stack) = 3 THEN status' = "running" ELSE TRUE
                   /\ Delivered(Object(f.object))
            /\ c = -2 => status' = "thrown"
            /\ (c # -2 /\ ~Blank(c) /\ ~(c = Ord["}"] /\ closes)) =>
                   CASE f.parsing_part = Name -> c # Ord["\""] => status' = "thrown"
                     [] f.parsing_part = Colon -> c # Ord[":"] => status' = "thrown"
                     [] f.parsing_part = Value -> status' = "running"
                     [] f.parsing_part = Comma -> c # Ord[","] => status' = "thrown"

\* The value asked for in the Value state is refused when a '}' stands there.
ObjectValueStep ==
    (/\ Running("parse_value")
     /\ Len(stack) > 1
     /\ stack[Len(stack) - 1].fn = "parse_object"
     /\ At(_pos) = Ord["}"]) => status' = "thrown"

\* C20: parse_object goes through the states Name, Colon, Value, Comma in
\* that cyclic order from Name, and returns only on a '}' met in Name with
\* no member parsed or in Comma; a '}' in Name after a comma, in Colon or in
\* Value, a non-string for a key, a missing colon and a missing comma are
\* errors, after which no value is returned.
C20_ObjectStateOrder ==
    [][/\ ObjectStateOrder
       /\ ObjectLoopStep
       /\ ObjectValueStep
       /\ status' = "thrown" => result' = NoValue]_vars

\* {"":1,} is refused at the brace that follows the comma.
C20_Witness ==
    /\ data = Bytes(<<"{", "\"", "\"", ":", "1", ",", "}">>)
    /\ Thrown
    /\ err.what = PositionedError(6, "Expected string literal as object key.")


(***************************************************************************)
(* The cursor after a number.                                              *)
(***************************************************************************)
\* The offset right after the number token that starts at offset s.
TokenEnd(s) ==
    LET t == NumberShape(s)
        i0 == IF At(s) = Ord["-"] THEN s + 1 ELSE s
        p == i0 + t.intDigits
        q == IF t.hasPoint THEN p + 1 + t.fracDigits ELSE p
        r == IF At(q + 1) \in {Ord["+"], Ord["-"]} THEN q + 2 ELSE q + 1
    IN  IF t.hasExp THEN r + t.expDigits ELSE q

\* parse_number returns in this step.
NumberReturns ==
    InLoop("parse_number") /\ Len(stack') < Len(stack) /\ status' # "thrown"

\* C21: when parse_number returns for the token at offsets [s, e), the
\* cursor, string or stream, stands at e, and the next peek gives the
\* character at e, or the end of the input when e is the input's length.
C21_NumberHandsBackTerminator ==
    [][NumberReturns =>
         LET e == TokenEnd(TopFrame.start_pos)
             next == peek(Machine')
         IN  /\ _pos' = e
             /\ kind = "istream" => stream'.pos = e
             /\ status' = "running"
             /\ stack'[Len(stack')].fn \in {"parse_json", "parse_array", "parse_object"}
             /\ IF e < Len(data) THEN next.c = At(e) ELSE next.m._eof]_vars

\* 1e1[ : the number 1e1 ends at offset 3, on the bracket.
C21_Witness ==
    /\ data = Bytes(<<"1", "e", "1", "[">>)
    /\ kind = "istream"
    /\ Running("parse_json")
    /\ TopFrame.parsed
    /\ _pos = 3
    /\ stream.pos = 3


(***************************************************************************)
(* The cursor at the ends of the input.                                    *)
(***************************************************************************)
\* C22 as stated: the cursor is never retreated at offset 0 and never
\* advanced once the input is exhausted (a peek that finds the end being
\* taken as the test for it).
C22_NoAdvanceAtEnd ==
    /\ ~hist.retreatAtZero
    /\ ~hist.advanceAtEnd

\* C22, amended: the cursor is never retreated at offset 0 and never stands
\* beyond the input's length when a call reads; at the end of the input a
\* step leaves the offset where it is (a peek, or a get undone by the
\* number lexer's retreat) or moves it one past the end and raises an error.
C22_ReadsAtEndOnlyProbe ==
    [][/\ ~hist'.retreatAtZero
       /\ status' = "running" => _pos' <= Len(data)
       /\ _pos = Len(data) =>
              \/ _pos' = _pos
              \/ status' = "thrown" /\ _pos' = _pos + 1]_vars

\* 11 : the number lexer's get() at the end of the input has moved the
\* cursor past it and the retreat has brought it back.
C22_Witness ==
    /\ data = Bytes(<<"1", "1">>)
    /\ Returned
    /\ hist.advanceAtEnd
    /\ hist.last = "retreat"
    /\ _pos = 2


(***************************************************************************)
(* Retreats.                                                               *)
(***************************************************************************)
\* The step is the one in which parse_number reaches the end of its token:
\* it returns, or rejects the token as malformed.
NumberEnds ==
    /\ InLoop("parse_number")
    /\ \/ NumberReturns
       \/ /\ status' = "thrown"
          /\ err'.what = PositionedError(TopFrame.start_pos, "Invalid number literal.")

\* C23: the cursor is never retreated twice without an advance in between;
\* it is retreated once at the end of each number token and nowhere else
\* (a step that is not the end of a number moves nothing when the last move
\* was a retreat, or advances), and on the stream cursor the one character
\* put back keeps the stream at the offset the parser counts.
C23_SingleRetreat ==
    [][/\ ~hist'.doubleRetreat
       /\ NumberEnds => hist'.last = "retreat"
       /\ (hist'.last = "retreat" /\ ~NumberEnds) =>
              /\ hist.last = "retreat"
              /\ _pos' = _pos
              /\ stream'.pos = stream.pos
       /\ (kind = "istream" /\ status' = "running") => stream'.pos = _pos']_vars

\* [1[ : the number has stepped back onto the second bracket, which the
\* array is about to read.
C23_Witness ==
    /\ data = Bytes(<<"[", "1">>) \o Bytes(<<"[">>)
    /\ kind = "istream"
    /\ InLoop("parse_array")
    /\ Len(TopFrame.array) = 1
    /\ hist.last = "retreat"
    /\ _pos = 2
    /\ stream.pos = 2


(***************************************************************************)
(* SpecDispatch: a value that starts with each kind of character, at top   *)
(* level, in an array and as a member's value, followed by at most         *)
(* MaxAfterFirst more characters.                                          *)
(***************************************************************************)
MaxAfterFirst == 2

DispatchTexts ==
    LET heads == {<<>>, Bytes(<<"[">>), Bytes(<<"[", "1", ",">>),
                  Bytes(<<"{", "\"", "a", "\"", ":">>)}
        first == {Ord[x] : x \in {"\"", "-", "0", "7", "[", "{", "]", "}", ":", ",",
                                  "t", "n", "x", "+", "."}} \cup {0}
        after == {Ord[x] : x \in {"\"", "1", "]", "r", "u"}}
    IN  {h \o <<c>> \o t : h \in heads, c \in first, t \in Texts(after, MaxAfterFirst)}

InitDispatch == \E d \in DispatchTexts, k \in Kinds : Start(d, k)
SpecDispatch == InitDispatch /\ [][Next]_vars

\* The step calls the production fn without moving the cursor: the
\* production is entered at the offset the dispatcher was entered at.
Dispatches(fn) ==
    /\ status' = "running"
    /\ Len(stack') = Len(stack) + 1
    /\ stack'[Len(stack')].fn = fn
    /\ stack'[Len(stack')].pc = "entry"
    /\ stack'[Len(stack')].entry = TopFrame.entry
    /\ _pos' = _pos
    /\ _pos = TopFrame.entry
    /\ stream'.pos = stream.pos

\* What the dispatcher does on the character under the cursor, the
\* characters of refused being refused as structural characters.
DispatcherStep(refused) ==
    Running("parse_value") =>
        LET c == At(_pos) IN
        CASE c = Ord["\""] -> Dispatches("parse_string")
          [] c = Ord["-"] \/ c \in 48..57 -> Dispatches("parse_number")
          [] c = Ord["["] -> Dispatches("parse_array")
          [] c = Ord["{"] -> Dispatches("parse_object")
          [] c \in refused ->
                /\ status' = "thrown"
                /\ err'.what = PositionedError(_pos, "Invalid structural character.")
                /\ _pos' = _pos
          [] OTHER -> Dispatches("parse_literal_name")

\* C24 as stated: '"' gives string, '-' or a digit number, '[' array,
\* '{' object and any other character a literal-name attempt, the cursor
\* not being moved.
C24_DispatchOnPeekedCharacter == [][DispatcherStep({})]_vars

\* C24, amended: as stated, except that the other structural characters,
\* ']', '}', ':' and ',', are refused with "Invalid structural character."
\* at their offset instead of being tried as a literal name.
C24_DispatchRefusesClosers ==
    [][DispatcherStep({Ord["]"], Ord["}"], Ord[":"], Ord[","]})]_vars

\* [1,} : the brace where a value is expected is refused by the dispatcher.
C24_Witness ==
    /\ data = Bytes(<<"[", "1", ",", "}">>)
    /\ Thrown
    /\ err.what = PositionedError(3, "Invalid structural character.")

(***************************************************************************)
(* Termination.                                                            *)
(***************************************************************************)
\* The productions in progress: the frames but for the driver's and the
\* dispatcher's.
Depth ==
    Cardinality({i \in 1..Len(stack) : stack[i].fn \notin {"parse_json", "parse_value"}})

\* A step that stays in the running function is its prologue or moves the
\* cursor forward; a step that returns leaves the cursor beyond the offset
\* at which each returning call was made.
Progress ==
    /\ (status' = "running" /\ Len(stack') = Len(stack)) =>
           \/ _pos' > _pos
           \/ /\ TopFrame.fn # "parse_json"
              /\ TopFrame.pc = "entry"
              /\ stack'[Len(stack')].pc = "loop"
              /\ _pos' >= _pos
    /\ (status' # "thrown" /\ Len(stack') < Len(stack)) =>
           \A i \in (Len(stack') + 1)..Len(stack) : i > 1 => _pos' > stack[i].entry

\* How many steps the running function can still take without moving the
\* cursor: a loop that may call a production, the dispatcher, a production
\* before its prologue, a lexer's loop, a loop that has its value.
Phase(f) ==
    IF f.fn = "parse_json" THEN (IF f.parsed THEN 0 ELSE 4)
    ELSE IF f.fn = "parse_value" THEN 3
    ELSE IF f.pc = "entry" THEN 2
    ELSE IF f.fn = "parse_array" THEN (IF f.expecting_comma THEN 0 ELSE 4)
    ELSE IF f.fn = "parse_object" THEN (IF f.parsing_part = Comma THEN 0 ELSE 4)
    ELSE 1

\* A measure of what is left of a parse call in progress: the characters
\* not yet passed, then the steps left at the current offset.
Rank == 5 * (Len(data) + 1 - _pos) + Phase(TopFrame)

\* The parse call is over, or the running function has a step to take
\* that changes the state ...
CanStep(m) == m.status = "running" => Step(m) # m

\* ... and a measure of what is left that is not negative.
Ranked == status = "running" => Rank >= 0

\* C25: a parse call ends, with a value or with an error: while it runs it
\* can always take a step, and every step that does not end it lowers a
\* measure that is never negative; each step within a production makes
\* progress on the cursor, each call that returns has consumed at least one
\* character, and the productions in progress are never more than the
\* input has characters.
C25_Terminates ==
    /\ CanStep(Machine) /\ Ranked
    /\ [][/\ CanStep(Machine') /\ Ranked'
          /\ status' = "running" => Rank' < Rank
          /\ Progress
          /\ Depth' <= Len(data)]_vars

\* [[[[ : four arrays in progress on four characters.
C25_Witness ==
    /\ data = Bytes(<<"[", "[">>) \o Bytes(<<"[", "[">>)
    /\ status = "running"
    /\ Depth = 4


(***************************************************************************)
(* Errors abort the parse.                                                 *)
(***************************************************************************)
\* The messages each function raises.
Says(fn) ==
    CASE fn = "parse_value" -> {"Invalid structural character."}
      [] fn = "parse_array" -> {"Expected comma.", "Expected value.", "Array not closed."}
      [] fn = "parse_object" ->
            {"Duplicate key disallowed.", "Expected string literal as object key.",
             "Expected colon.", "Expected comma.", "Object not closed."}
      [] fn = "parse_number" ->
            {"Insignificant leading 0s disallowed.", "Invalid number literal."}
      [] fn = "parse_string" ->
            {"Invalid escape character.", "Invalid hex character in Unicode escape.",
             "Unterminated string literal."}
      [] fn = "parse_literal_name" -> {"Invalid literal."}
      [] OTHER -> {}

\* The function that raises in a step that throws: the running one, or the
\* parse_object that is handed a key it already has.
Raiser ==
    IF /\ TopFrame.fn = "parse_string"
       /\ err'.what[4] = "Duplicate key disallowed."
    THEN stack[Len(stack) - 1].fn
    ELSE TopFrame.fn

\* What may follow the characters read so far.
Continuations == {<<>>, <<Ord["1"]>>, <<Ord["]"]>>}

\* The input up to and including the character under the cursor.
ReadSoFar == SubSeq(data, 1, IF _pos' < Len(data) THEN _pos' + 1 ELSE Len(data))

\* C26: an error raised at any depth ends the parse call with that error,
\* a message of the function that raised it at an offset not beyond the
\* cursor; no value is returned, no frame is left to go on, nothing happens
\* after it, and when it was raised on a character it is the error of every
\* input that starts with the characters read so far.
C26_ErrorAborts ==
    [][/\ status = "running"
       /\ status' = "thrown" =>
              /\ stack' = <<>>
              /\ result' = NoValue
              /\ IF Len(err'.what) = 1
                 THEN TopFrame.fn = "parse_json" /\ err'.what = <<"Invalid JSON data.">>
                 ELSE /\ Len(err'.what) = 4
                      /\ err'.what[4] \in Says(Raiser)
                      /\ err'.what[2] \in 0.._pos'
              /\ ~hist'.readAtEnd =>
                     \A t \in Continuations :
                         LET other == parse(ReadSoFar \o t, kind)
                         IN  other.status = "thrown" /\ other.err = err']_vars

\* [[,1 : the dispatcher, two arrays deep, refuses the comma; the parse
\* call fails with its error, the cursor still on the comma.
C26_Witness ==
    /\ data = Bytes(<<"[", "[", ",", "1">>)
    /\ Thrown
    /\ err.what = PositionedError(2, "Invalid structural character.")
    /\ result = NoValue
    /\ stack = <<>>
    /\ _pos = 2

(***************************************************************************)
(* SpecInterleaved: two parse calls of one process, each on its own input  *)
(* and cursor, taking their steps in any order.  The static tables of      *)
(* json.h are the one thing the two have in common.                        *)
(***************************************************************************)
\* The inputs of the two calls: between them they look up every table, with
\* keys the tables have and keys they lack.
InterleavedTexts ==
    {Bytes(<<"[", "1", ",", "t", "r", "u", "e", "]">>),
     Bytes(<<"{", "\"", "\\", "n", "\"", ":", "n", "u", "l", "l", "}">>),
     Bytes(<<"[", "x">>),
     Bytes(<<"\"", "\\", "x">>),
     Bytes(<<"{", "\"", "a", "\"", "1">>),
     Bytes(<<"[", "1", "x">>),
     Bytes(<<" ", "f", "a", "l", "s", "e", " ">>)}

InitInterleaved ==
    \E d \in InterleavedTexts, k \in Kinds :
        \E d2 \in InterleavedTexts, k2 \in Kinds :
            Begin(d, k, InitMachine(d2, k2))

\* A step of the second call: it runs on the tables as they are now.
SecondCall ==
    /\ second.status = "running"
    /\ LET m == Step([second EXCEPT !.tables = tables])
       IN  /\ second' = m
           /\ tables' = m.tables
    /\ UNCHANGED <<data, kind, _pos, _eof, stream, stack, status, result, err,
                   hist>>

NextInterleaved == Next \/ SecondCall

SpecInterleaved == InitInterleaved /\ [][NextInterleaved]_vars

\* What a call on text d over a cursor of kind k comes to when run alone.
Alone(d, k) ==
    LET m == parse(d, k)
    IN  [status |-> m.status, result |-> m.result, err |-> m.err]

\* C27: no step of a parse call changes the static lookup tables (every
\* operator[] lookup finds its key, so none inserts an entry), and each of
\* two calls interleaved in any order ends with the value or the error it
\* ends with when run alone.
C27_TablesNeverModified ==
    /\ tables = Tables
    /\ status # "running" =>
           [status |-> status, result |-> result, err |-> err] = Alone(data, kind)
    /\ second.status \in {"returned", "thrown"} =>
           [status |-> second.status, result |-> second.result,
            err |-> second.err] = Alone(second.data, second.kind)

\* The first call has returned [1,true] while the second, which has read a
\* backslash escape the table lacks, has ended in its error.
C27_Witness ==
    /\ data = Bytes(<<"[", "1", ",", "t", "r", "u", "e", "]">>)
    /\ status = "returned"
    /\ result.type = "Array"
    /\ Len(result.v) = 2
    /\ second.data = Bytes(<<"\"", "\\", "x">>)
    /\ second.status = "thrown"
    /\ second.err.what = PositionedError(2, "Invalid escape character.")
    /\ tables = Tables

====
